---- MODULE Spec2Model ----
(***************************************************************************)
(* git-shadow: the commit transaction engine (pre-commit / post-commit     *)
(* hooks, Restore) over the lock file, the stash directory, the worktree   *)
(* and the index.  Every tool invocation is a process of its own           *)
(* (src/main.rs); a step of the model is one file-system or git call.      *)
(***************************************************************************)
EXTENDS Integers, Sequences, FiniteSets, TLC

(* ------------------------------------------------------------------ *)
(* Bounds of the model                                                  *)
(* ------------------------------------------------------------------ *)
\* tool processes started one after another in a behaviour without failing
\* calls (every process has a fresh pid)
MaxPid == 4
\* tool processes started in a behaviour in which calls may fail
MaxFaultPid == 2
\* file-system / git calls that fail in one behaviour
MaxFaults == 2
\* processes killed in one behaviour
MaxKills == 1
\* tool processes started in a behaviour in which they run concurrently
MaxConcPid == 2
\* files that go missing behind the tool's back in one behaviour
MaxDels == 2
\* processes per behaviour when files go missing
MaxDelPid == 3
\* commits of the repository in one behaviour of the registry commands
MaxCommits == 2
\* the highest pid in a behaviour of the registry commands
MaxAdminPid == 4
\* failing calls in a behaviour of the registry commands
MaxAdminFaults == 1

(* ------------------------------------------------------------------ *)
(* Values                                                               *)
(* ------------------------------------------------------------------ *)
\* a path that does not exist
Absent == "absent"
\* a file that was created or truncated and not (completely) written
Trunc == "trunc"
\* a path that does not exist, and whose directory does not exist either
NoDir == "nodir"
\* Option::None for a path argument
None == <<>>

Procs == {1, 2}

\* managed paths (repository relative)
OV1 == <<"C">>
OV2 == <<"%", "/", "C">>
PH == <<"n">>
PD == <<"k">>
\* a file inside the directory PD
PDF == <<"k", "/", "s">>
\* the name tempfile::NamedTempFile gives the temp file of an atomic_write
TmpName == <<".", "t">>

(* ------------------------------------------------------------------ *)
(* path.rs                                                              *)
(* ------------------------------------------------------------------ *)
RECURSIVE ReplaceSeq(_, _, _)
\* str::replace: every non-overlapping match of pat, left to right
ReplaceSeq(s, pat, r) ==
  IF Len(s) < Len(pat) THEN s
  ELSE IF SubSeq(s, 1, Len(pat)) = pat
       THEN r \o ReplaceSeq(SubSeq(s, Len(pat) + 1, Len(s)), pat, r)
       ELSE <<Head(s)>> \o ReplaceSeq(Tail(s), pat, r)

encode_path(normalized) ==
  ReplaceSeq(ReplaceSeq(normalized, <<"%">>, <<"%", "2", "5">>),
             <<"/">>, <<"%", "2", "F">>)

\* a mutant: decode_path that replaces %25 before %2F
decode_path_swapped(encoded) ==
  ReplaceSeq(ReplaceSeq(encoded, <<"%", "2", "5">>, <<"%">>),
             <<"%", "2", "F">>, <<"/">>)

decode_path(encoded) ==
  ReplaceSeq(ReplaceSeq(encoded, <<"%", "2", "F">>, <<"/">>),
             <<"%", "2", "5">>, <<"%">>)

(* ------------------------------------------------------------------ *)
(* config.rs: the registry                                              *)
(* ------------------------------------------------------------------ *)
\* byte values of the characters used in paths (String order of BTreeMap)
CharOrd(c) ==
  CASE c = "%" -> 37 [] c = "." -> 46 [] c = "/" -> 47 [] c = "2" -> 50
    [] c = "5" -> 53 [] c = "C" -> 67 [] c = "F" -> 70 [] c = "k" -> 107
    [] c = "n" -> 110 [] c = "s" -> 115 [] c = "t" -> 116

RECURSIVE Less(_, _)
\* Ord for String: lexicographic on bytes
Less(a, b) ==
  IF Len(b) = 0 THEN FALSE
  ELSE IF Len(a) = 0 THEN TRUE
  ELSE IF Head(a) = Head(b) THEN Less(Tail(a), Tail(b))
  ELSE CharOrd(Head(a)) < CharOrd(Head(b))

RECURSIVE SortedKeys(_)
\* iteration order of BTreeMap<String, FileEntry>
SortedKeys(S) ==
  IF S = {} THEN <<>>
  ELSE LET m == CHOOSE x \in S : \A y \in S \ {x} : Less(x, y)
       IN <<m>> \o SortedKeys(S \ {m})

\* FileEntry (the fields the commit transaction reads)
OverlayEntry == [file_type |-> "overlay", is_directory |-> FALSE]
PhantomEntry(dir) == [file_type |-> "phantom", is_directory |-> dir]

EntryOf(p) ==
  IF p \in {OV1, OV2} THEN OverlayEntry ELSE PhantomEntry(p = PD)

(* ------------------------------------------------------------------ *)
(* File contents and the directories of the repository                  *)
(* ------------------------------------------------------------------ *)
\* committed (baseline) content, shadow content, and a half-staged edit
BaseC(p) == IF p = OV1 THEN "B1" ELSE "B2"
ShadowC(p) == IF p = OV1 THEN "S1" ELSE "S2"
PartC(p) == IF p = OV1 THEN "A1" ELSE "A2"

\* files of the worktree (and entries of the index and of HEAD)
FilePaths == {OV1, OV2, PH, PDF, decode_path(TmpName)}
\* file names that can occur in .git/shadow/stash
StashNames == {encode_path(OV1), encode_path(OV2), encode_path(PH), TmpName}
\* file names in .git/shadow/baselines
BaselineNames == {encode_path(OV1), encode_path(OV2)}

LockAbsent == [st |-> "absent", pid |-> 0]
\* a lock file that exists and holds no "pid=" line yet
LockTrunc == [st |-> "trunc", pid |-> 0]
\* a mutant: acquire leaves no lock file behind
LockOf_gone(pid) == LockAbsent

\* format!("pid={}\ntimestamp={}", ...)
LockOf(pid) == [st |-> "ok", pid |-> pid]

\* a mutant: every lock file is taken for unreadable
parse_lock_ok_never(content) == FALSE

\* parse_lock(content).is_ok()
parse_lock_ok(content) == content.st = "ok"

\* the files of a directory listing: read_dir(..).filter(is_file)
StashFiles(st) == {n \in DOMAIN st : st[n] # Absent}

(* ------------------------------------------------------------------ *)
(* git.rs                                                               *)
(* ------------------------------------------------------------------ *)
\* q lies inside directory p
IsUnder(q, p) ==
  /\ Len(q) > Len(p) + 1
  /\ SubSeq(q, 1, Len(p)) = p
  /\ q[Len(p) + 1] = "/"

\* git status --porcelain=v2: (index differs from HEAD, worktree differs from
\* index); an untracked path has no "1"/"2" line and reads as clean
staging_status(hd, idx, w, path) ==
  IF idx[path] = Absent
  THEN <<hd[path] # Absent, FALSE>>
  ELSE <<idx[path] # hd[path], w[path] # idx[path]>>

\* a mutant: git add that stages nothing
GitAdd_noop(idx, w, path) == idx

\* git add <path>
GitAdd(idx, w, path) == [idx EXCEPT ![path] = w[path]]

\* a mutant: the unstage strategies leave the index as it is
unstage_phantom_keep(idx, hd, path) == idx

\* git rm --cached --ignore-unmatch <path>; for a directory with staged
\* files that fails (no -r) and git restore --staged <path> runs instead
unstage_phantom(idx, hd, path) ==
  IF \E q \in DOMAIN idx : IsUnder(q, path) /\ idx[q] # Absent
  THEN [q \in DOMAIN idx |->
          IF q = path \/ IsUnder(q, path) THEN hd[q] ELSE idx[q]]
  ELSE [q \in DOMAIN idx |-> IF q = path THEN Absent ELSE idx[q]]

(* ------------------------------------------------------------------ *)
(* State                                                                *)
(* ------------------------------------------------------------------ *)
VARIABLES
  wt,        \* worktree: file path -> content
  index,     \* git index: file path -> staged content
  head,      \* HEAD commit: file path -> committed content
  baselines, \* .git/shadow/baselines: encoded name -> content
  config,    \* .git/shadow/config.json: ShadowConfig.files
  stash,     \* .git/shadow/stash: file name -> content
  lock,      \* .git/shadow/lock
  proc,      \* the running tool processes and their local variables
  nextPid,   \* the pid the next process gets
  faults,    \* failed calls so far
  kills,     \* killed processes so far
  limits,    \* how many processes may overlap, fail and be killed
  last,      \* the process that ended last: its result
  snap,      \* the files when the latest process started
  pre0,      \* the files when the latest pre-commit started
  scen,      \* where a commit cycle / a crash recovery stands
  hist,      \* what has happened since Init (pf: a post-commit could not
             \* restore an entry and no Restore has emptied the stash since;
             \* pa: neither Restore nor a post-commit has)
  shadow,    \* the rest of .git/shadow: its directories, the suspended
             \* flag of config.json, the suspended copies; and the commits
  pure       \* the input and the results of a function that is applied on
             \* its own (path encoding, the exclude file, config.json)

vars == <<wt, index, head, baselines, config, stash, lock, proc, nextPid,
          faults, kills, limits, last, snap, pre0, scen, hist, shadow, pure>>

\* no function is applied on its own
NoPure == [pc |-> "none"]

NoErr == [kind |-> "none", path |-> None]
Err(kind, path) == [kind |-> kind, path |-> path]

\* a process slot that runs nothing (l0: the lock file as it was when the
\* process started)
IdleProc ==
  [pc |-> "idle", op |-> "none", pid |-> 0, file |-> None, keys |-> <<>>,
   cfg |-> <<>>, i |-> 0, j |-> 0, buf |-> Absent, so |-> <<>>, sp |-> <<>>,
   ow |-> <<>>, err |-> NoErr, todo |-> {}, cur |-> None, failed |-> {},
   flt |-> {}, reach |-> "start", fd |-> FALSE, l0 |-> LockAbsent,
   steps |-> <<>>, flag |-> FALSE]

Snapshot ==
  [wt |-> wt, index |-> index, head |-> head, stash |-> stash, lock |-> lock]

NoLast ==
  [op |-> "none", res |-> "none", err |-> NoErr, flt |-> {}, reach |-> "start",
   so |-> <<>>, sp |-> <<>>, failed |-> {}, file |-> None]

Quiet == \A p \in Procs : proc[p].pc = "idle"

\* is_process_alive: kill(pid, 0) == 0
is_process_alive(pid) ==
  \E q \in Procs : proc[q].pc # "idle" /\ proc[q].pid = pid

\* whether the next fallible call fails
MayFail == IF faults < limits.faults THEN BOOLEAN ELSE {FALSE}

\* release_lock: remove_file is called, and can fail, only if the file exists
ReleaseFails == IF lock.st = "absent" THEN {FALSE} ELSE MayFail

\* what a failed or interrupted std::fs::write leaves in the target
Damaged(old) == {old, Trunc}

(* ------------------------------------------------------------------ *)
(* The scenario the claims speak about: pre-commit, host commit,        *)
(* post-commit in a row; or a killed pre-commit followed by Restore     *)
(* ------------------------------------------------------------------ *)
NoScen == [ph |-> "none", acq |-> FALSE, flt |-> {}, sc |-> FALSE]

ScenStart(op, file) ==
  CASE op = "pre" -> [NoScen EXCEPT !.ph = "pre_run"]
    [] op = "post" /\ scen.ph = "committed" -> [scen EXCEPT !.ph = "post_run"]
    [] op = "restore" /\ scen.ph = "pre_killed" ->
         [scen EXCEPT !.ph = "rest_run", !.sc = file # None]
    [] OTHER -> NoScen

ScenExit(me, res) ==
  CASE me.op = "pre" /\ res = "ok" /\ me.flt = {} ->
         [NoScen EXCEPT !.ph = "pre_ok", !.acq = TRUE]
    [] me.op = "pre" /\ res = "killed" ->
         [NoScen EXCEPT !.ph = "pre_killed", !.acq = me.reach # "start",
                        !.flt = me.flt]
    [] me.op = "post" /\ res = "ok" /\ me.flt = {} /\ scen.ph = "post_run" ->
         [scen EXCEPT !.ph = "cycle_done"]
    [] me.op = "restore" /\ res = "ok" /\ me.flt = {} /\ scen.ph = "rest_run" ->
         [scen EXCEPT !.ph = "rest_done"]
    [] OTHER -> NoScen

\* process p goes on with local state me; unlinked: the lock file was removed,
\* so a descriptor another process holds on it no longer names the lock path
SetProc(p, me, unlinked) ==
  proc' = [q \in Procs |->
             IF q = p THEN me
             ELSE IF unlinked THEN [proc[q] EXCEPT !.fd = FALSE] ELSE proc[q]]
  /\ UNCHANGED <<shadow, pure>>

Cont(p, me) ==
  /\ SetProc(p, me, FALSE)
  /\ UNCHANGED <<last, scen>>

\* process p returns (res = "ok" / "err") or is killed
Done(p, me, res, err, unlinked) ==
  /\ SetProc(p, IdleProc, unlinked)
  /\ last' = [op |-> me.op, res |-> res, err |-> err, flt |-> me.flt,
              reach |-> me.reach, so |-> me.so, sp |-> me.sp,
              failed |-> me.failed, file |-> me.file]
  /\ scen' = ScenExit(me, res)

Fault(me, tag) == [me EXCEPT !.flt = @ \cup {tag}]

Count(f) == faults' = faults + (IF f THEN 1 ELSE 0)

(* ------------------------------------------------------------------ *)
(* Initial states: an installed repository, a registry, shadow edits    *)
(* ------------------------------------------------------------------ *)
ManagedPaths == {OV1, OV2, PH, PD}

\* the registries a behaviour can start with
Registries == {{}, {PD}, {OV1, PH}, {OV1, OV2}}

\* how far a behaviour is explored: without failing calls, with them, or
\* with files that go missing
Budgets ==
  {[conc |-> FALSE, faults |-> 0, kills |-> MaxKills, pids |-> MaxPid,
    dels |-> 0],
   [conc |-> FALSE, faults |-> MaxFaults, kills |-> MaxKills,
    pids |-> MaxFaultPid, dels |-> 0],
   [conc |-> FALSE, faults |-> 0, kills |-> 0, pids |-> MaxDelPid,
    dels |-> MaxDels]}

InitRepo(reg, staged, ph, pd) ==
  /\ config = [p \in reg |-> EntryOf(p)]
  /\ wt = [p \in FilePaths |->
             CASE p \in {OV1, OV2} /\ p \in reg -> ShadowC(p)
               [] p = PH /\ PH \in reg /\ ph # "none" -> "N"
               [] p = PDF /\ PD \in reg -> "K"
               [] OTHER -> Absent]
  /\ head = [p \in FilePaths |->
               IF p \in {OV1, OV2} /\ p \in reg THEN BaseC(p) ELSE Absent]
  /\ index = [p \in FilePaths |->
                CASE p \in {OV1, OV2} /\ p \in reg ->
                       (CASE staged[p] = "no" -> BaseC(p)
                          [] staged[p] = "all" -> ShadowC(p)
                          [] OTHER -> PartC(p))
                  [] p = PH /\ PH \in reg /\ ph = "staged" -> "N"
                  [] p = PDF /\ PD \in reg /\ pd -> "K"
                  [] OTHER -> Absent]
  /\ baselines = [n \in BaselineNames |->
                    IF decode_path(n) \in reg THEN BaseC(decode_path(n))
                    ELSE Absent]
  /\ stash = [n \in StashNames |-> Absent]
  /\ lock = LockAbsent

\* install.rs creates .git/shadow/stash; nothing else does, and every reader
\* of the directory asks first whether it exists
\* the line of .git/info/exclude for a Phantom: a directory gets a
\* trailing slash
ExcludeLine(p, is_dir) == IF is_dir THEN p \o <<"/">> ELSE p

\* the managed section of .git/info/exclude after the Phantoms of the
\* registry reg were added
ExcludedBy(reg) ==
  {ExcludeLine(p, reg[p].is_directory) :
     p \in {q \in DOMAIN reg : reg[q].file_type = "phantom"}}

InitShadow(dirs) ==
  shadow = [stash_dir |-> dirs, suspended |-> FALSE, susp_dir |-> FALSE,
            susp |-> [n \in {encode_path(OV1), encode_path(OV2),
                             encode_path(PH)} |-> Absent],
            commits |-> <<head>>, exclude |-> ExcludedBy(config)]

InitRest(lim) ==
  /\ proc = [p \in Procs |-> IdleProc]
  /\ nextPid = 1
  /\ faults = 0
  /\ kills = 0
  /\ limits = lim
  /\ last = NoLast
  /\ snap = Snapshot
  /\ pre0 = Snapshot
  /\ scen = NoScen
  /\ hist = [drain |-> FALSE, scoped |-> FALSE, dels |-> 0,
             pf |-> FALSE, pa |-> FALSE]

InitRepos(regs) ==
  \E reg \in regs :
    \E staged \in [{OV1, OV2} -> {"no", "all", "part"}] :
      \E ph \in {"none", "unstaged", "staged"}, pd \in BOOLEAN :
        /\ \A p \in {OV1, OV2} \ reg : staged[p] = "no"
        /\ PH \notin reg => ph = "none"
        /\ PD \notin reg => ~pd
        /\ InitRepo(reg, staged, ph, pd)

\* one tool process at a time (the user runs one command after another)
Init ==
  /\ InitRepos(Registries)
  /\ \E lim \in Budgets : InitRest(lim)
  /\ \E d \in BOOLEAN : InitShadow(d)
  /\ pure = NoPure

\* tool processes that overlap (two git commands in two terminals)
InitConc ==
  /\ InitRepos({{}, {OV1, PH}})
  /\ InitRest([conc |-> TRUE, faults |-> 1, kills |-> MaxKills,
               pids |-> MaxConcPid, dels |-> MaxDels])
  /\ InitShadow(TRUE)
  /\ pure = NoPure

(* ------------------------------------------------------------------ *)
(* main.rs: a command is started as a process                           *)
(* ------------------------------------------------------------------ *)
Commands ==
  {[op |-> "pre", file |-> None], [op |-> "post", file |-> None],
   [op |-> "restore", file |-> None], [op |-> "restore", file |-> OV1],
   [op |-> "restore", file |-> PH]}

FirstPc(op) ==
  CASE op = "pre" -> "acq_exists" [] op = "post" -> "po_list"
    [] op = "restore" -> "re_list"

Start(p, c) ==
  /\ proc[p].pc = "idle"
  /\ nextPid <= limits.pids
  /\ limits.conc \/ (Quiet /\ p = 1)
  /\ proc' = [proc EXCEPT ![p] =
                [IdleProc EXCEPT !.pc = FirstPc(c.op), !.op = c.op,
                                 !.pid = nextPid, !.file = c.file,
                                 !.l0 = lock]]
  /\ nextPid' = nextPid + 1
  /\ snap' = Snapshot
  /\ pre0' = IF c.op = "pre" THEN Snapshot ELSE pre0
  /\ scen' = ScenStart(c.op, c.file)
  /\ hist' = [hist EXCEPT !.scoped = @ \/ (c.op = "restore" /\ c.file # None)]
  /\ UNCHANGED <<wt, index, head, baselines, config, stash, lock, faults,
                 kills, limits, last, shadow, pure>>

(* ------------------------------------------------------------------ *)
(* lock.rs: acquire_lock, called first by pre_commit::handle            *)
(* ------------------------------------------------------------------ *)
\* if lock_path.exists()
AcquireExists(p) ==
  LET me == proc[p] IN
  /\ me.pc = "acq_exists"
  /\ Cont(p, [me EXCEPT !.pc = IF lock.st = "absent" THEN "acq_create"
                                ELSE "acq_read"])
  /\ UNCHANGED <<wt, index, head, baselines, config, stash, lock, nextPid,
                 faults, kills, limits, snap, pre0, hist>>

\* read_to_string(&lock_path)?, parse_lock, the pid and liveness tests
AcquireRead(p) ==
  LET me == proc[p] IN
  /\ me.pc = "acq_read"
  /\ \E f \in MayFail :
       /\ Count(f)
       /\ IF f \/ lock.st = "absent"
          THEN Done(p, IF f THEN Fault(me, "acquire") ELSE me, "err",
                    Err("Io", None), FALSE)
          ELSE IF ~parse_lock_ok(lock)
          THEN Cont(p, [me EXCEPT !.pc = "acq_create"])
          ELSE IF lock.pid = me.pid
          THEN Cont(p, [me EXCEPT !.pc = "load", !.reach = "acquired"])
          ELSE IF is_process_alive(lock.pid)
          THEN Done(p, me, "err", Err("LockHeld", None), FALSE)
          ELSE Done(p, me, "err", Err("StaleLock", None), FALSE)
  /\ UNCHANGED <<wt, index, head, baselines, config, stash, lock, nextPid,
                 kills, limits, snap, pre0, hist>>

\* std::fs::write(&lock_path, content), first half: File::create opens the
\* path with O_CREAT | O_TRUNC
AcquireCreate(p) ==
  LET me == proc[p] IN
  /\ me.pc = "acq_create"
  /\ \E f \in MayFail :
       /\ Count(f)
       /\ IF f
          THEN /\ Done(p, Fault(me, "acquire"), "err", Err("Io", None), FALSE)
               /\ UNCHANGED lock
          ELSE /\ lock' = LockTrunc
               /\ Cont(p, [me EXCEPT !.pc = "acq_write", !.fd = TRUE])
  /\ UNCHANGED <<wt, index, head, baselines, config, stash, nextPid, kills,
                 limits, snap, pre0, hist>>

\* std::fs::write, second half: write_all through the open descriptor
AcquireWrite(p) ==
  LET me == proc[p] IN
  /\ me.pc = "acq_write"
  /\ \E f \in MayFail :
       /\ Count(f)
       /\ IF f
          THEN /\ Done(p, Fault(me, "acquire"), "err", Err("Io", None), FALSE)
               /\ UNCHANGED lock
          ELSE /\ lock' = IF me.fd THEN LockOf(me.pid) ELSE lock
               /\ Cont(p, [me EXCEPT !.pc = "load", !.reach = "acquired"])
  /\ UNCHANGED <<wt, index, head, baselines, config, stash, nextPid, kills,
                 limits, snap, pre0, hist>>

(* ------------------------------------------------------------------ *)
(* hooks/pre_commit.rs                                                  *)
(* ------------------------------------------------------------------ *)
\* the first error of run_hard_checks, or NoErr
\* a mutant: the hard checks report nothing
run_hard_checks_off(keys, cfg, st, w, bl) == NoErr

\* the first error of run_hard_checks, or NoErr
run_hard_checks(keys, cfg, st, w, bl) ==
  LET bad == {i \in 1..Len(keys) :
                /\ cfg[keys[i]].file_type = "overlay"
                /\ \/ w[keys[i]] = Absent
                   \/ bl[encode_path(keys[i])] = Absent}
  IN IF StashFiles(st) # {} THEN Err("StashRemaining", None)
     ELSE IF bad = {} THEN NoErr
     ELSE LET i == CHOOSE x \in bad : \A y \in bad : x <= y
          IN IF w[keys[i]] = Absent THEN Err("FileMissing", keys[i])
             ELSE Err("BaselineMissing", keys[i])

\* a mutant: the partial-staging check reports nothing
detect_partial_staging_off(keys, cfg, hd, idx, w) == NoErr

\* the first error of detect_partial_staging, or NoErr
detect_partial_staging(keys, cfg, hd, idx, w) ==
  LET bad == {i \in 1..Len(keys) :
                /\ cfg[keys[i]].file_type = "overlay"
                /\ staging_status(hd, idx, w, keys[i]) = <<TRUE, TRUE>>}
  IN IF bad = {} THEN NoErr
     ELSE Err("PartialStage", keys[CHOOSE x \in bad : \A y \in bad : x <= y])

\* where process_files starts on entry i
EntryPc(cfg, keys, i) ==
  IF cfg[keys[i]].file_type = "overlay" THEN "ov_read"
  ELSE IF cfg[keys[i]].is_directory THEN "pd_unstage"
  ELSE "ph_exists"

\* stashed_overlays.iter().chain(stashed_phantoms.iter())
RbList(me) == me.so \o me.sp

\* a mutant: handle releases the lock at once and leaves the rollback out
RbGoto_release(me, j) == [me EXCEPT !.pc = "rel_err"]

\* rollback goes on with stashed entry j, then re-stages, then handle
\* releases the lock
RbGoto(me, j) ==
  IF j <= Len(RbList(me)) THEN [me EXCEPT !.pc = "rb_read", !.j = j]
  ELSE IF Len(me.ow) > 0 THEN [me EXCEPT !.pc = "rb_restage", !.j = 1]
  ELSE [me EXCEPT !.pc = "rel_err"]

\* process_files returned Err(e): handle calls tx.rollback
P5Fail(p, me, e) ==
  Cont(p, RbGoto([Fault(me, "phase5") EXCEPT !.err = e, !.reach = "rollback"],
                 1))

\* the for loop of process_files moves to the next entry, or handle returns
\* Ok(()) and the lock stays for post-commit
Advance(p, me) ==
  IF me.i = Len(me.keys)
  THEN Done(p, [me EXCEPT !.reach = "processed"], "ok", NoErr, FALSE)
  ELSE Cont(p, [me EXCEPT !.i = @ + 1,
                          !.pc = EntryPc(me.cfg, me.keys, me.i + 1)])

\* ShadowConfig::load(&git.shadow_dir)?  and  config.files.is_empty()
PreLoad(p) ==
  LET me == proc[p] IN
  /\ me.pc = "load"
  /\ \E f \in MayFail :
       /\ Count(f)
       /\ IF f
          THEN Done(p, Fault(me, "load"), "err", Err("Io", None), FALSE)
          ELSE LET keys == SortedKeys(DOMAIN config) IN
               Cont(p, [me EXCEPT !.cfg = config, !.keys = keys,
                                  !.reach = "loaded",
                                  !.pc = IF keys = <<>> THEN "rel_empty"
                                         ELSE "hard"])
  /\ UNCHANGED <<wt, index, head, baselines, config, stash, lock, nextPid,
                 kills, limits, snap, pre0, hist>>

\* a mutant: the empty registry returns Ok with the lock left in place
PreReleaseEmpty_keep(p) ==
  /\ proc[p].pc = "rel_empty"
  /\ Done(p, proc[p], "ok", NoErr, FALSE)
  /\ UNCHANGED <<wt, index, head, baselines, config, stash, lock, nextPid,
                 faults, kills, limits, snap, pre0, hist>>

\* lock::release_lock(&git.shadow_dir)?; return Ok(())
PreReleaseEmpty(p) ==
  LET me == proc[p] IN
  /\ me.pc = "rel_empty"
  /\ \E f \in ReleaseFails :
       /\ Count(f)
       /\ IF f
          THEN /\ Done(p, Fault(me, "rel"), "err", Err("Io", None), FALSE)
               /\ UNCHANGED lock
          ELSE /\ lock' = LockAbsent
               /\ Done(p, me, "ok", NoErr, TRUE)
  /\ UNCHANGED <<wt, index, head, baselines, config, stash, nextPid, kills,
                 limits, snap, pre0, hist>>

\* run_hard_checks(git, &config)
PreHardChecks(p) ==
  LET me == proc[p]
      e == run_hard_checks(me.keys, me.cfg, stash, wt, baselines)
  IN
  /\ me.pc = "hard"
  /\ Cont(p, IF e = NoErr THEN [me EXCEPT !.pc = "partial", !.reach = "hard"]
             ELSE [me EXCEPT !.pc = "rel_err", !.err = e])
  /\ UNCHANGED <<wt, index, head, baselines, config, stash, lock, nextPid,
                 faults, kills, limits, snap, pre0, hist>>

\* detect_partial_staging(git, &config)
PrePartial(p) ==
  LET me == proc[p]
      e == detect_partial_staging(me.keys, me.cfg, head, index, wt)
      asks == \E k \in DOMAIN me.cfg : me.cfg[k].file_type = "overlay"
  IN
  /\ me.pc = "partial"
  /\ \E f \in (IF asks THEN MayFail ELSE {FALSE}) :
       /\ Count(f)
       /\ Cont(p, IF f
                  THEN [Fault(me, "partial") EXCEPT !.pc = "rel_err",
                                                    !.err = Err("Io", None)]
                  ELSE IF e = NoErr
                  THEN [me EXCEPT !.pc = EntryPc(me.cfg, me.keys, 1), !.i = 1,
                                  !.reach = "partial"]
                  ELSE [me EXCEPT !.pc = "rel_err", !.err = e])
  /\ UNCHANGED <<wt, index, head, baselines, config, stash, lock, nextPid,
                 kills, limits, snap, pre0, hist>>

\* lock::release_lock(&git.shadow_dir).ok(); return Err(e)
PreReleaseErr(p) ==
  LET me == proc[p] IN
  /\ me.pc = "rel_err"
  /\ \E f \in ReleaseFails :
       /\ Count(f)
       /\ IF f
          THEN /\ Done(p, Fault(me, "rel"), "err", me.err, FALSE)
               /\ UNCHANGED lock
          ELSE /\ lock' = LockAbsent
               /\ Done(p, me, "err", me.err, TRUE)
  /\ UNCHANGED <<wt, index, head, baselines, config, stash, nextPid, kills,
                 limits, snap, pre0, hist>>

\* process_overlay a: std::fs::read(&worktree_path)
OvRead(p) ==
  LET me == proc[p]
      path == me.keys[me.i]
  IN
  /\ me.pc = "ov_read"
  /\ \E f \in MayFail :
       /\ Count(f)
       /\ IF f \/ wt[path] = Absent
          THEN P5Fail(p, me, Err("Io", path))
          ELSE Cont(p, [me EXCEPT !.buf = wt[path], !.pc = "ov_stash"])
  /\ UNCHANGED <<wt, index, head, baselines, config, stash, lock, nextPid,
                 kills, limits, snap, pre0, hist>>

\* NamedTempFile::new_in(parent)? fails when the stash directory is missing
StashWriteFails == IF shadow.stash_dir THEN MayFail ELSE {TRUE}

\* a mutant: the stash write is lost
StashPut_lost(st, name, content) == st

\* fs_util::atomic_write(&stash_path, &content): the rename
StashPut(st, name, content) == [st EXCEPT ![name] = content]

\* process_overlay a: atomic_write to the stash, push to stashed_overlays
OvStash(p) ==
  LET me == proc[p]
      path == me.keys[me.i]
  IN
  /\ me.pc = "ov_stash"
  /\ \E f \in StashWriteFails :
       /\ Count(f /\ shadow.stash_dir)
       /\ IF f
          THEN /\ P5Fail(p, me, Err("Io", path))
               /\ UNCHANGED stash
          ELSE /\ stash' = StashPut(stash, encode_path(path), me.buf)
               /\ Cont(p, [me EXCEPT !.so = Append(@, path),
                                     !.pc = "ov_readbase"])
  /\ UNCHANGED <<wt, index, head, baselines, config, lock, nextPid, kills,
                 limits, snap, pre0, hist>>

\* process_overlay b: std::fs::read(&baseline_path)
OvReadBase(p) ==
  LET me == proc[p]
      path == me.keys[me.i]
  IN
  /\ me.pc = "ov_readbase"
  /\ \E f \in MayFail :
       /\ Count(f)
       /\ IF f \/ baselines[encode_path(path)] = Absent
          THEN P5Fail(p, me, Err("Io", path))
          ELSE Cont(p, [me EXCEPT !.buf = baselines[encode_path(path)],
                                  !.pc = "ov_write"])
  /\ UNCHANGED <<wt, index, head, baselines, config, stash, lock, nextPid,
                 kills, limits, snap, pre0, hist>>

\* process_overlay b: std::fs::write(&worktree_path, &baseline), push to
\* overwritten
OvWrite(p) ==
  LET me == proc[p]
      path == me.keys[me.i]
  IN
  /\ me.pc = "ov_write"
  /\ \E f \in MayFail :
       /\ Count(f)
       /\ IF f
          THEN /\ \E c \in Damaged(wt[path]) : wt' = [wt EXCEPT ![path] = c]
               /\ P5Fail(p, me, Err("Io", path))
          ELSE /\ wt' = [wt EXCEPT ![path] = me.buf]
               /\ Cont(p, [me EXCEPT !.ow = Append(@, path), !.pc = "ov_add"])
  /\ UNCHANGED <<index, head, baselines, config, stash, lock, nextPid, kills,
                 limits, snap, pre0, hist>>

\* process_overlay c: git.add(file_path)
OvAdd(p) ==
  LET me == proc[p]
      path == me.keys[me.i]
  IN
  /\ me.pc = "ov_add"
  /\ \E f \in MayFail :
       /\ Count(f)
       /\ IF f
          THEN /\ P5Fail(p, me, Err("GitCommand", path))
               /\ UNCHANGED index
          ELSE /\ index' = GitAdd(index, wt, path)
               /\ Advance(p, me)
  /\ UNCHANGED <<wt, head, baselines, config, stash, lock, nextPid, kills,
                 limits, snap, pre0, hist>>

\* process_phantom a: if worktree_path.exists()
PhExists(p) ==
  LET me == proc[p]
      path == me.keys[me.i]
  IN
  /\ me.pc = "ph_exists"
  /\ Cont(p, [me EXCEPT !.pc = IF wt[path] # Absent THEN "ph_read"
                                ELSE "ph_unstage"])
  /\ UNCHANGED <<wt, index, head, baselines, config, stash, lock, nextPid,
                 faults, kills, limits, snap, pre0, hist>>

\* process_phantom a: std::fs::read(&worktree_path)
PhRead(p) ==
  LET me == proc[p]
      path == me.keys[me.i]
  IN
  /\ me.pc = "ph_read"
  /\ \E f \in MayFail :
       /\ Count(f)
       /\ IF f \/ wt[path] = Absent
          THEN P5Fail(p, me, Err("Io", path))
          ELSE Cont(p, [me EXCEPT !.buf = wt[path], !.pc = "ph_stash"])
  /\ UNCHANGED <<wt, index, head, baselines, config, stash, lock, nextPid,
                 kills, limits, snap, pre0, hist>>

\* process_phantom a: atomic_write to the stash, push to stashed_phantoms
PhStash(p) ==
  LET me == proc[p]
      path == me.keys[me.i]
  IN
  /\ me.pc = "ph_stash"
  /\ \E f \in StashWriteFails :
       /\ Count(f /\ shadow.stash_dir)
       /\ IF f
          THEN /\ P5Fail(p, me, Err("Io", path))
               /\ UNCHANGED stash
          ELSE /\ stash' = StashPut(stash, encode_path(path), me.buf)
               /\ Cont(p, [me EXCEPT !.sp = Append(@, path),
                                     !.pc = "ph_unstage"])
  /\ UNCHANGED <<wt, index, head, baselines, config, lock, nextPid, kills,
                 limits, snap, pre0, hist>>

\* process_phantom b (and the directory branch): git.unstage_phantom
PhUnstage(p) ==
  LET me == proc[p]
      path == me.keys[me.i]
  IN
  /\ me.pc \in {"ph_unstage", "pd_unstage"}
  /\ \E f \in MayFail :
       /\ Count(f)
       /\ IF f
          THEN /\ P5Fail(p, me, Err("UnstageFailure", path))
               /\ UNCHANGED index
          ELSE /\ index' = unstage_phantom(index, head, path)
               /\ Advance(p, me)
  /\ UNCHANGED <<wt, head, baselines, config, stash, lock, nextPid, kills,
                 limits, snap, pre0, hist>>

(* PreCommitTransaction::rollback *)

\* if stash_path.exists() { if let Ok(content) = std::fs::read(&stash_path)
RbRead(p) ==
  LET me == proc[p]
      name == encode_path(RbList(me)[me.j])
  IN
  /\ me.pc = "rb_read"
  /\ IF stash[name] = Absent
     THEN /\ Cont(p, RbGoto(me, me.j + 1))
          /\ UNCHANGED <<faults, hist>>
     ELSE \E f \in MayFail :
            /\ Count(f)
            /\ hist' = [hist EXCEPT !.drain = @ \/ f]
            /\ IF f THEN Cont(p, RbGoto(Fault(me, "rb_read"), me.j + 1))
               ELSE Cont(p, [me EXCEPT !.buf = stash[name], !.pc = "rb_write"])
  /\ UNCHANGED <<wt, index, head, baselines, config, stash, lock, nextPid,
                 kills, limits, snap, pre0>>

\* a mutant: rollback leaves the worktree as it is
RbPut_skip(w, path, content) == w

\* the worktree after rollback's write of a stashed file
RbPut(w, path, content) == [w EXCEPT ![path] = content]

\* let _ = std::fs::write(&worktree_path, &content)
RbWrite(p) ==
  LET me == proc[p]
      path == RbList(me)[me.j]
  IN
  /\ me.pc = "rb_write"
  /\ \E f \in MayFail :
       /\ Count(f)
       /\ IF f
          THEN /\ \E c \in Damaged(wt[path]) : wt' = [wt EXCEPT ![path] = c]
               /\ Cont(p, [Fault(me, "rb_write") EXCEPT !.pc = "rb_remove"])
          ELSE /\ wt' = RbPut(wt, path, me.buf)
               /\ Cont(p, [me EXCEPT !.pc = "rb_remove"])
  /\ UNCHANGED <<index, head, baselines, config, stash, lock, nextPid, kills,
                 limits, snap, pre0, hist>>

\* let _ = std::fs::remove_file(&stash_path)
RbRemove(p) ==
  LET me == proc[p]
      name == encode_path(RbList(me)[me.j])
  IN
  /\ me.pc = "rb_remove"
  /\ \E f \in MayFail :
       /\ Count(f)
       /\ hist' = [hist EXCEPT !.drain = @ \/ f]
       /\ IF f
          THEN /\ Cont(p, RbGoto(Fault(me, "rb_remove"), me.j + 1))
               /\ UNCHANGED stash
          ELSE /\ stash' = [stash EXCEPT ![name] = Absent]
               /\ Cont(p, RbGoto(me, me.j + 1))
  /\ UNCHANGED <<wt, index, head, baselines, config, lock, nextPid, kills,
                 limits, snap, pre0>>

\* for file_path in &self.overwritten { let _ = git.add(file_path); }
RbRestage(p) ==
  LET me == proc[p]
      path == me.ow[me.j]
      nxt(r) == IF me.j < Len(me.ow) THEN [r EXCEPT !.j = @ + 1]
                ELSE [r EXCEPT !.pc = "rel_err"]
  IN
  /\ me.pc = "rb_restage"
  /\ \E f \in MayFail :
       /\ Count(f)
       /\ IF f
          THEN /\ Cont(p, nxt(Fault(me, "rb_add")))
               /\ UNCHANGED index
          ELSE /\ index' = GitAdd(index, wt, path)
               /\ Cont(p, nxt(me))
  /\ UNCHANGED <<wt, head, baselines, config, stash, lock, nextPid, kills,
                 limits, snap, pre0, hist>>

(* ------------------------------------------------------------------ *)
(* hooks/post_commit.rs                                                 *)
(* ------------------------------------------------------------------ *)
\* ShadowConfig::load(..)?, then `if !stash_dir.exists() { return Ok(()) }`,
\* else the listing of the stash directory
PostList(p) ==
  LET me == proc[p] IN
  /\ me.pc = "po_list"
  /\ \E f \in MayFail :
       /\ Count(f)
       /\ IF f
          THEN Done(p, Fault(me, "load"), "err", Err("Io", None), FALSE)
          ELSE IF ~shadow.stash_dir
          THEN Done(p, me, "ok", NoErr, FALSE)
          ELSE Cont(p, [me EXCEPT !.todo = StashFiles(stash),
                                  !.pc = IF StashFiles(stash) = {}
                                         THEN "po_finish" ELSE "po_read"])
  /\ UNCHANGED <<wt, index, head, baselines, config, stash, lock, nextPid,
                 kills, limits, snap, pre0, hist>>

\* the loop goes to the next listed stash file, or to the end of handle
PostNext(me) ==
  [me EXCEPT !.pc = IF me.todo = {} THEN "po_finish" ELSE "po_read"]

\* for entry in &stash_files: match std::fs::read(&stash_path)
PostRead(p) ==
  LET me == proc[p] IN
  /\ me.pc = "po_read"
  /\ \E n \in me.todo :
       LET me1 == [me EXCEPT !.todo = @ \ {n}, !.cur = n] IN
       \E f \in MayFail :
         /\ Count(f)
         /\ IF f \/ stash[n] = Absent
            THEN Cont(p, PostNext([Fault(me1, "po_read") EXCEPT
                                     !.failed = @ \cup {n}]))
            ELSE Cont(p, [me1 EXCEPT !.buf = stash[n], !.pc = "po_write"])
  /\ UNCHANGED <<wt, index, head, baselines, config, stash, lock, nextPid,
                 kills, limits, snap, pre0, hist>>

\* match std::fs::write(&worktree_path, &content): File::create fails with
\* ENOENT, and creates nothing, when the directory of the path is missing
PostWrite(p) ==
  LET me == proc[p]
      path == decode_path(me.cur)
  IN
  /\ me.pc = "po_write"
  /\ \E f \in MayFail :
       /\ Count(f)
       /\ IF wt[path] = NoDir
          THEN /\ ~f
               /\ UNCHANGED wt
               /\ Cont(p, PostNext([me EXCEPT !.failed = @ \cup {me.cur}]))
          ELSE IF f
          THEN /\ \E c \in Damaged(wt[path]) : wt' = [wt EXCEPT ![path] = c]
               /\ Cont(p, PostNext([Fault(me, "po_write") EXCEPT
                                      !.failed = @ \cup {me.cur}]))
          ELSE /\ wt' = [wt EXCEPT ![path] = me.buf]
               /\ Cont(p, [me EXCEPT !.pc = "po_remove"])
  /\ UNCHANGED <<index, head, baselines, config, stash, lock, nextPid, kills,
                 limits, snap, pre0, hist>>

\* let _ = std::fs::remove_file(&stash_path)
PostRemove(p) ==
  LET me == proc[p] IN
  /\ me.pc = "po_remove"
  /\ \E f \in MayFail :
       /\ Count(f)
       /\ hist' = [hist EXCEPT !.drain = @ \/ f]
       /\ IF f
          THEN /\ Cont(p, PostNext(Fault(me, "po_remove")))
               /\ UNCHANGED stash
          ELSE /\ stash' = [stash EXCEPT ![me.cur] = Absent]
               /\ Cont(p, PostNext(me))
  /\ UNCHANGED <<wt, index, head, baselines, config, lock, nextPid, kills,
                 limits, snap, pre0>>

\* a mutant: the lock is released whatever failed
PostKeepsLock_never(failed) == FALSE

\* if failed.is_empty() { release } else { keep the lock }
PostKeepsLock(failed) == failed # {}

\* the end of handle (and the early return on an empty stash):
\* lock::release_lock(&git.shadow_dir)?; Ok(())
PostFinish(p) ==
  LET me == proc[p] IN
  /\ me.pc = "po_finish"
  /\ IF PostKeepsLock(me.failed)
     THEN /\ Done(p, me, "ok", NoErr, FALSE)
          /\ UNCHANGED <<lock, faults>>
     ELSE \E f \in ReleaseFails :
            /\ Count(f)
            /\ IF f
               THEN /\ Done(p, Fault(me, "rel"), "err", Err("Io", None), FALSE)
                    /\ UNCHANGED lock
               ELSE /\ lock' = LockAbsent
                    /\ Done(p, me, "ok", NoErr, TRUE)
  /\ hist' = [hist EXCEPT !.pf = @ \/ me.failed # {},
                          !.pa = (@ \/ me.failed # {})
                                 /\ StashFiles(stash) # {}]
  /\ UNCHANGED <<wt, index, head, baselines, config, stash, nextPid, kills,
                 limits, snap, pre0>>

(* ------------------------------------------------------------------ *)
(* commands/restore.rs                                                  *)
(* ------------------------------------------------------------------ *)
\* the listing of the stash directory
ResList(p) ==
  LET me == proc[p] IN
  /\ me.pc = "re_list"
  /\ Cont(p, [me EXCEPT !.todo = StashFiles(stash),
                        !.pc = IF StashFiles(stash) = {} THEN "re_lock"
                               ELSE "re_read"])
  /\ UNCHANGED <<wt, index, head, baselines, config, stash, lock, nextPid,
                 faults, kills, limits, snap, pre0, hist>>

ResNext(me) ==
  [me EXCEPT !.pc = IF me.todo = {} THEN "re_lock" ELSE "re_read"]

\* a mutant: every stash entry is passed over
ResSkips_always(file, name) == TRUE

\* a mutant: the path argument is not looked at
ResSkips_never(file, name) == FALSE

\* if let Some(target) = file { if normalized != target { continue; } }
ResSkips(file, name) == file # None /\ decode_path(name) # file

\* for entry in entries: the path filter, then std::fs::read(&stash_path)?
ResRead(p) ==
  LET me == proc[p] IN
  /\ me.pc = "re_read"
  /\ \E n \in me.todo :
       LET me1 == [me EXCEPT !.todo = @ \ {n}, !.cur = n] IN
       IF ResSkips(me.file, n)
       THEN /\ Cont(p, ResNext(me1))
            /\ UNCHANGED faults
       ELSE \E f \in MayFail :
              /\ Count(f)
              /\ IF f \/ stash[n] = Absent
                 THEN Done(p, Fault(me1, "re_read"), "err", Err("Io", None),
                           FALSE)
                 ELSE Cont(p, [me1 EXCEPT !.buf = stash[n], !.pc = "re_write"])
  /\ UNCHANGED <<wt, index, head, baselines, config, stash, lock, nextPid,
                 kills, limits, snap, pre0, hist>>

\* std::fs::write(&worktree_path, &content)?
ResWrite(p) ==
  LET me == proc[p]
      path == decode_path(me.cur)
  IN
  /\ me.pc = "re_write"
  /\ \E f \in MayFail :
       /\ Count(f)
       /\ IF f
          THEN /\ \E c \in Damaged(wt[path]) : wt' = [wt EXCEPT ![path] = c]
               /\ Done(p, Fault(me, "re_write"), "err", Err("Io", None), FALSE)
          ELSE /\ wt' = [wt EXCEPT ![path] = me.buf]
               /\ Cont(p, [me EXCEPT !.pc = "re_remove"])
  /\ UNCHANGED <<index, head, baselines, config, stash, lock, nextPid, kills,
                 limits, snap, pre0, hist>>

\* std::fs::remove_file(&stash_path)?
ResRemove(p) ==
  LET me == proc[p] IN
  /\ me.pc = "re_remove"
  /\ \E f \in MayFail :
       /\ Count(f)
       /\ IF f
          THEN /\ Done(p, Fault(me, "re_remove"), "err", Err("Io", None), FALSE)
               /\ UNCHANGED stash
          ELSE /\ stash' = [stash EXCEPT ![me.cur] = Absent]
               /\ Cont(p, ResNext(me))
  /\ UNCHANGED <<wt, index, head, baselines, config, lock, nextPid, kills,
                 limits, snap, pre0, hist>>

\* if git.shadow_dir.join("lock").exists() { lock::release_lock(..)?; }
ResLock(p) ==
  LET me == proc[p] IN
  /\ me.pc = "re_lock"
  /\ \E f \in ReleaseFails :
       /\ Count(f)
       /\ IF f
          THEN /\ Done(p, Fault(me, "rel"), "err", Err("Io", None), FALSE)
               /\ UNCHANGED lock
          ELSE /\ lock' = LockAbsent
               /\ Done(p, me, "ok", NoErr, TRUE)
  /\ hist' = IF lock' = LockAbsent /\ StashFiles(stash) = {}
             THEN [hist EXCEPT !.pf = FALSE, !.pa = FALSE] ELSE hist
  /\ UNCHANGED <<wt, index, head, baselines, config, stash, nextPid, kills,
                 limits, snap, pre0>>

(* ------------------------------------------------------------------ *)
(* The environment: SIGKILL of a tool process, and git's own commit     *)
(* ------------------------------------------------------------------ *)
\* the worktree file a process is writing at its current step
WritingTo(me) ==
  CASE me.pc = "ov_write" -> me.keys[me.i]
    [] me.pc = "rb_write" -> RbList(me)[me.j]
    [] me.pc \in {"po_write", "re_write"} -> decode_path(me.cur)
    [] OTHER -> None

\* a kill ends the process where it stands; inside a std::fs::write the
\* target may be left truncated, inside an atomic_write the temp file of
\* NamedTempFile::new_in(stash) may be left behind
Kill(p) ==
  LET me == proc[p] IN
  /\ me.pc # "idle"
  /\ kills < limits.kills
  /\ kills' = kills + 1
  /\ IF WritingTo(me) # None
     THEN \E c \in Damaged(wt[WritingTo(me)]) :
            wt' = [wt EXCEPT ![WritingTo(me)] = c]
     ELSE UNCHANGED wt
  /\ IF me.pc \in {"ov_stash", "ph_stash"} /\ shadow.stash_dir
     THEN \E c \in Damaged(stash[TmpName]) :
            stash' = [stash EXCEPT ![TmpName] = c]
     ELSE UNCHANGED stash
  /\ Done(p, me, "killed", NoErr, FALSE)
  /\ UNCHANGED <<index, head, baselines, config, lock, nextPid, faults,
                 limits, snap, pre0, hist>>

\* an Overlay's worktree file or its Baseline file is removed while no
\* command runs (the states run_hard_checks is there to refuse)
RemoveFile ==
  /\ Quiet
  /\ hist.dels < limits.dels
  /\ \E p \in {q \in DOMAIN config : config[q].file_type = "overlay"} :
       \/ /\ wt[p] # Absent
          /\ wt' = [wt EXCEPT ![p] = Absent]
          /\ UNCHANGED baselines
       \/ /\ baselines[encode_path(p)] # Absent
          /\ baselines' = [baselines EXCEPT ![encode_path(p)] = Absent]
          /\ UNCHANGED wt
  /\ hist' = [hist EXCEPT !.dels = @ + 1]
  /\ last' = NoLast
  /\ scen' = NoScen
  /\ UNCHANGED <<index, head, config, stash, lock, proc, nextPid, faults,
                 kills, limits, snap, pre0, shadow, pure>>

\* git commit between the hooks (or with --no-verify): HEAD takes the index
HostCommit ==
  /\ Quiet
  /\ head' = index
  /\ scen' = IF scen.ph = "pre_ok" THEN [scen EXCEPT !.ph = "committed"]
             ELSE NoScen
  /\ UNCHANGED <<wt, index, baselines, config, stash, lock, proc, nextPid,
                 faults, kills, limits, last, snap, pre0, hist, shadow,
                 pure>>

(* ------------------------------------------------------------------ *)
(* The specifications                                                   *)
(* ------------------------------------------------------------------ *)
Next ==
  \/ \E p \in Procs, c \in Commands : Start(p, c)
  \/ \E p \in Procs : AcquireExists(p)
  \/ \E p \in Procs : AcquireRead(p)
  \/ \E p \in Procs : AcquireCreate(p)
  \/ \E p \in Procs : AcquireWrite(p)
  \/ \E p \in Procs : PreLoad(p)
  \/ \E p \in Procs : PreReleaseEmpty(p)
  \/ \E p \in Procs : PreHardChecks(p)
  \/ \E p \in Procs : PrePartial(p)
  \/ \E p \in Procs : PreReleaseErr(p)
  \/ \E p \in Procs : OvRead(p)
  \/ \E p \in Procs : OvStash(p)
  \/ \E p \in Procs : OvReadBase(p)
  \/ \E p \in Procs : OvWrite(p)
  \/ \E p \in Procs : OvAdd(p)
  \/ \E p \in Procs : PhExists(p)
  \/ \E p \in Procs : PhRead(p)
  \/ \E p \in Procs : PhStash(p)
  \/ \E p \in Procs : PhUnstage(p)
  \/ \E p \in Procs : RbRead(p)
  \/ \E p \in Procs : RbWrite(p)
  \/ \E p \in Procs : RbRemove(p)
  \/ \E p \in Procs : RbRestage(p)
  \/ \E p \in Procs : PostList(p)
  \/ \E p \in Procs : PostRead(p)
  \/ \E p \in Procs : PostWrite(p)
  \/ \E p \in Procs : PostRemove(p)
  \/ \E p \in Procs : PostFinish(p)
  \/ \E p \in Procs : ResList(p)
  \/ \E p \in Procs : ResRead(p)
  \/ \E p \in Procs : ResWrite(p)
  \/ \E p \in Procs : ResRemove(p)
  \/ \E p \in Procs : ResLock(p)
  \/ \E p \in Procs : Kill(p)
  \/ RemoveFile
  \/ HostCommit

Spec == Init /\ [][Next]_vars

SpecConc == InitConc /\ [][Next]_vars

(* ------------------------------------------------------------------ *)
(* Properties                                                           *)
(* ------------------------------------------------------------------ *)
Overlays == {p \in DOMAIN config : config[p].file_type = "overlay"}
PhantomFiles ==
  {p \in DOMAIN config :
     config[p].file_type = "phantom" /\ ~config[p].is_directory}
\* the registered paths that are files of the worktree
ManagedFiles == Overlays \cup PhantomFiles

\* C1: for every Overlay entry with baseline B and worktree content S that
\* passes the pre-commit checks, after pre-commit, the host commit and
\* post-commit have each completed without failure the committed revision of
\* the path is B, the worktree content is S, the stash is empty and the lock
\* file is absent.
C1_OverlayCycle ==
  scen.ph = "cycle_done" =>
    \A p \in Overlays :
      /\ head[p] = baselines[encode_path(p)]
      /\ wt[p] = pre0.wt[p]
      /\ StashFiles(stash) = {}
      /\ lock = LockAbsent

\* a completed cycle over an overlay whose shadow content was fully staged
C1_Witness ==
  /\ scen.ph = "cycle_done"
  /\ \E p \in Overlays :
       /\ pre0.wt[p] # baselines[encode_path(p)]
       /\ pre0.index[p] = pre0.wt[p]
       /\ head[p] = baselines[encode_path(p)]
       /\ wt[p] = pre0.wt[p]

\* C8: for every non-directory Phantom entry whose file exists in the
\* worktree, staged or not before the commit, after pre-commit, the host
\* commit and post-commit complete the committed revision does not contain
\* the path and the worktree file holds its original bytes.
C8_PhantomCycle ==
  scen.ph = "cycle_done" =>
    \A p \in PhantomFiles :
      pre0.wt[p] # Absent => head[p] = Absent /\ wt[p] = pre0.wt[p]

\* a completed cycle over a phantom file that had been staged
C8_Witness ==
  /\ scen.ph = "cycle_done"
  /\ \E p \in PhantomFiles :
       /\ pre0.wt[p] # Absent
       /\ pre0.index[p] = pre0.wt[p]
       /\ head[p] = Absent
       /\ wt[p] = pre0.wt[p]

\* a killed pre-commit that had the lock, then a Restore that returned Ok
Recovered == scen.ph = "rest_done" /\ scen.acq

Completed == Quiet /\ kills = 0

HookKilled == Quiet /\ last.res = "killed" /\ last.op \in {"pre", "post"}

\* C5 as it is stated: a kill of pre-commit or post-commit leaves either lock
\* absent and stash empty, or lock present and stash non-empty.
C5_AsStated ==
  HookKilled => (StashFiles(stash) = {} <=> lock.st = "absent")

\* C5: a kill of a pre-commit or post-commit process that started with the
\* lock present or the stash empty never leaves the lock absent with a
\* non-empty stash (it can leave the lock present with an empty stash).
C5_KillKeepsLock ==
  (HookKilled /\ (StashFiles(snap.stash) # {} => snap.lock.st # "absent"))
    => (StashFiles(stash) # {} => lock.st # "absent")

\* a pre-commit killed after it had stashed an entry
C5_Witness ==
  /\ HookKilled
  /\ last.op = "pre"
  /\ StashFiles(snap.stash) = {}
  /\ StashFiles(stash) # {}
  /\ lock.st = "ok"

\* the pre-commit that ended last returned (it was not killed)
PreReturned == Quiet /\ last.op = "pre" /\ last.res \in {"ok", "err"}

\* overlay p was partially staged when that pre-commit started
PartiallyStaged(p) ==
  /\ p \in Overlays
  /\ staging_status(pre0.head, pre0.index, pre0.wt, p) = <<TRUE, TRUE>>

\* worktree, index and stash are as they were when that pre-commit started
Untouched == wt = pre0.wt /\ index = pre0.index /\ stash = pre0.stash

\* C6 as it is stated: if at pre-commit any Overlay entry has staging_status
\* (true, true), pre-commit fails with PartialStage for that path and has
\* modified no worktree file, index entry or stash entry when it returns.
C6_AsStated ==
  \A p \in DOMAIN config :
    (PreReturned /\ PartiallyStaged(p))
      => last.err = Err("PartialStage", p) /\ Untouched

\* C6: if pre-commit acquires the lock, loads the registry, passes the hard
\* checks and can query git for the status, and any Overlay entry has
\* staging_status (true, true), pre-commit fails with PartialStage for the
\* first such path in registry order and has modified no worktree file,
\* index entry or stash entry when it returns.
C6_PartialStageBlocks ==
  (/\ PreReturned
   /\ last.reach \notin {"start", "acquired", "loaded"}
   /\ "partial" \notin last.flt
   /\ \E p \in DOMAIN config : PartiallyStaged(p))
    => /\ \E p \in DOMAIN config :
            /\ PartiallyStaged(p)
            /\ \A q \in DOMAIN config \ {p} : PartiallyStaged(q) => Less(p, q)
            /\ last.err = Err("PartialStage", p)
       /\ Untouched

\* two overlays were partially staged and pre-commit named the first
C6_Witness ==
  /\ PreReturned
  /\ last.reach = "hard"
  /\ PartiallyStaged(OV1) /\ PartiallyStaged(OV2)
  /\ last.err = Err("PartialStage", OV2)
  /\ Untouched

\* C7 as it is stated: acquire writes the lock file only when none exists;
\* an existing lock file is left unchanged, and acquire on it fails with
\* StaleLock when its pid is not live.
C7_AsStated ==
  /\ \A p \in Procs :
       (~limits.conc /\ proc[p].pc = "load") => snap.lock = LockAbsent
  /\ (/\ ~limits.conc
      /\ PreReturned
      /\ last.reach = "start"
      /\ last.flt = {}
      /\ snap.lock # LockAbsent)
       => lock = snap.lock /\ last.err.kind = "StaleLock"

\* Phase 5 of the pre-commit that ended last failed
Phase5Failed == PreReturned /\ "phase5" \in last.flt

\* the errors the steps of Phase 5 raise
Phase5Errors == {"Io", "GitCommand", "UnstageFailure"}

\* everything Phase 5 had stashed is back, the stash is empty, the lock gone
RolledBack ==
  /\ \A i \in DOMAIN last.so : wt[last.so[i]] = pre0.wt[last.so[i]]
  /\ \A i \in DOMAIN last.sp : wt[last.sp[i]] = pre0.wt[last.sp[i]]
  /\ StashFiles(stash) = {}
  /\ lock = LockAbsent

C10_AsStated ==
  (/\ Quiet /\ ~limits.conc
   /\ last.op = "post" /\ last.res \in {"ok", "err"}
   /\ snap.lock # LockAbsent
   /\ lock = LockAbsent)
    => StashFiles(stash) = {}

\* C3 as it is stated: two concurrent pre-commit processes never both
\* proceed past lock acquisition.
C3_AsStated ==
  \A p, q \in Procs :
    (p # q /\ proc[p].op = "pre" /\ proc[q].op = "pre")
      => ~(proc[p].reach # "start" /\ proc[q].reach # "start")

(* ------------------------------------------------------------------ *)
(* post-commit and pre-commit when there is nothing to restore or stash *)
(* ------------------------------------------------------------------ *)
\* post-commit has returned Ok and no command has been started since
PostReturned == Quiet /\ last.op = "post" /\ last.res = "ok" /\ last.flt = {}

\* C11 as it is stated: when post-commit runs and the stash directory is
\* absent or contains no files, post-commit modifies no worktree file and the
\* lock file is absent when it returns.
C11_AsStated ==
  (PostReturned /\ (~shadow.stash_dir \/ StashFiles(snap.stash) = {}))
    => (wt = snap.wt /\ lock = LockAbsent)

(* ------------------------------------------------------------------ *)
(* Restore as the recovery primitive                                    *)
(* ------------------------------------------------------------------ *)
\* Restore without a path argument has returned Ok; nothing started since
RestoredAll ==
  Quiet /\ last.op = "restore" /\ last.file = None /\ last.res = "ok"

\* the stash files that Restore writes to worktree path p
StashedAs(st, p) == {n \in StashFiles(st) : decode_path(n) = p}

\* C12: after Restore without a path argument completes, from any state of
\* stash and lock (a stale lock included), the stash is empty, the lock is
\* absent, every path that had a stash entry has worktree content equal to
\* that entry's bytes, and no other worktree path is changed.
C12_RestoreAll ==
  RestoredAll =>
    /\ StashFiles(stash) = {}
    /\ lock = LockAbsent
    /\ \A p \in FilePaths :
         IF StashedAs(snap.stash, p) # {}
         THEN \A n \in StashedAs(snap.stash, p) : wt[p] = snap.stash[n]
         ELSE wt[p] = snap.wt[p]

\* Restore found a stashed overlay under the lock of a dead process, put the
\* shadow content back over the baseline and removed the lock
C12_Witness ==
  /\ RestoredAll
  /\ snap.lock.st = "ok"
  /\ \E p \in Overlays :
       /\ snap.stash[encode_path(p)] = ShadowC(p)
       /\ snap.wt[p] = BaseC(p)
       /\ wt[p] = ShadowC(p)
  /\ \E q \in FilePaths : StashedAs(snap.stash, q) = {} /\ wt[q] # Absent

(* ------------------------------------------------------------------ *)
(* pre-commit: what success leaves, what the hard checks refuse         *)
(* ------------------------------------------------------------------ *)
\* pre-commit has returned Ok and no command has been started since
PreSucceeded == Quiet /\ last.op = "pre" /\ last.res = "ok"

\* C13: after pre-commit succeeds on a registry with at least one entry, the
\* lock is still present, and for every Overlay entry the worktree file and
\* the index entry both hold the Baseline content while stash/<encoded path>
\* holds exactly the pre-commit worktree bytes.
C13_PreCommitSuccess ==
  (PreSucceeded /\ DOMAIN config # {}) =>
    /\ lock.st # "absent"
    /\ \A p \in Overlays :
         /\ wt[p] = baselines[encode_path(p)]
         /\ index[p] = baselines[encode_path(p)]
         /\ stash[encode_path(p)] = pre0.wt[p]

\* pre-commit succeeded over an overlay whose shadow content was staged
C13_Witness ==
  /\ PreSucceeded
  /\ lock.st = "ok"
  /\ \E p \in Overlays :
       /\ pre0.wt[p] = ShadowC(p)
       /\ pre0.index[p] = ShadowC(p)
       /\ wt[p] = BaseC(p)
       /\ index[p] = BaseC(p)
       /\ stash[encode_path(p)] = ShadowC(p)

\* Overlay p lacked its worktree file or its Baseline file when the latest
\* pre-commit started (no Baseline file changes while a hook runs)
Missing(p) ==
  /\ p \in Overlays
  /\ (pre0.wt[p] = Absent \/ baselines[encode_path(p)] = Absent)

\* the errors that the conditions holding at the start of pre-commit call for
HardErrors ==
  (IF StashFiles(pre0.stash) # {} THEN {"StashRemaining"} ELSE {})
  \cup (IF \E p \in Overlays : pre0.wt[p] = Absent
        THEN {"FileMissing"} ELSE {})
  \cup (IF \E p \in Overlays : baselines[encode_path(p)] = Absent
        THEN {"BaselineMissing"} ELSE {})

Texts ==
  << <<"B1", "B2", "b", "b">>, <<"S1", "S2", "s", "b">>,
     <<"H1", "H2", "b", "h">>, <<"M1", "M2", "s", "h">>,
     <<"U1", "U2", "u", "b">>, <<"V1", "V2", "u", "h">>,
     <<"X1", "X2", "x", "b">>, <<"Y1", "Y2", "x", "h">> >>

RowOf(c) == CHOOSE i \in 1..Len(Texts) : c \in {Texts[i][1], Texts[i][2]}
ColOf(c) == IF \E i \in 1..Len(Texts) : Texts[i][1] = c THEN 1 ELSE 2

\* the regions of a text, and the text with given regions
Lines(c) == <<Texts[RowOf(c)][3], Texts[RowOf(c)][4]>>
Unlines(col, l) ==
  Texts[CHOOSE i \in 1..Len(Texts) :
          Texts[i][3] = l[1] /\ Texts[i][4] = l[2]][col]

\* git merge-file on one region: a side that kept the base takes the other
\* side's text; two different edits give a conflict block
merge_region(base, ours, theirs) ==
  IF ours = theirs THEN ours
  ELSE IF ours = base THEN theirs
  ELSE IF theirs = base THEN ours
  ELSE "x"

\* a mutant: the merge keeps our side and drops theirs
three_way_merge_ours(base, ours, theirs) ==
  [content |-> ours, has_conflicts |-> FALSE]

\* merge::three_way_merge: git merge-file -p --diff3 ours base theirs
three_way_merge(base, ours, theirs) ==
  LET b == Lines(base)
      o == Lines(ours)
      t == Lines(theirs)
      m == [i \in 1..2 |-> merge_region(b[i], o[i], t[i])]
  IN [content |-> Unlines(ColOf(ours), m),
      has_conflicts |-> \E i \in 1..2 :
                          o[i] # t[i] /\ o[i] # b[i] /\ t[i] # b[i]]

\* lock::check_lock (HeldByUs needs the pid of the caller in the lock file)
check_lock(l) ==
  IF l.st = "absent" THEN "Free"
  ELSE IF ~parse_lock_ok(l) THEN "Error"
  ELSE IF is_process_alive(l.pid) THEN "HeldByOther"
  ELSE "Stale"

\* file names in .git/shadow/suspended
SuspNames == {encode_path(OV1), encode_path(OV2), encode_path(PH)}

\* git.head_commit(): commits are numbered as they are made
head_commit == Len(shadow.commits)

\* FileEntry of an Overlay registered at a commit
OverlayAt(commit) ==
  [file_type |-> "overlay", is_directory |-> FALSE, baseline_commit |-> commit]

(* ------------------------------------------------------------------ *)
(* A command is a list of steps run in order; `?` ends it at the first  *)
(* step that fails. s holds the files and the ShadowConfig in memory.   *)
(* ------------------------------------------------------------------ *)
Step(k, p) == [k |-> k, p |-> p]

\* ShadowConfig.suspended as loaded: the flag stored in config.json
load_suspended == shadow.suspended

\* the flag that ShadowConfig::save stores in config.json
save_suspended(s) == s.flag

\* the files a command works on (wt, bl, sd, sdir, ex), config.json (files,
\* suspended) and the ShadowConfig loaded from it (mem, flag)
Loaded ==
  [wt |-> wt, bl |-> baselines, sd |-> shadow.susp, sdir |-> shadow.susp_dir,
   mem |-> config, flag |-> load_suspended, files |-> config,
   suspended |-> shadow.suspended, ex |-> shadow.exclude]

\* the repository when a command starts
Before ==
  [wt |-> wt, index |-> index, head |-> head, stash |-> stash, lock |-> lock,
   baselines |-> baselines, config |-> config, shadow |-> shadow]

\* whether the step can succeed in s
Possible(s, st) ==
  CASE st.k = "rd_wt" -> s.wt[st.p] # Absent
    [] st.k = "rd_bl" -> s.bl[encode_path(st.p)] # Absent
    [] st.k = "rd_susp" -> s.sd[encode_path(st.p)] # Absent
    [] st.k = "show" -> head[st.p] # Absent
    [] st.k = "tracked" -> index[st.p] # Absent
    [] st.k = "untracked" -> index[st.p] = Absent
    [] st.k = "managed" -> st.p \in DOMAIN s.mem
    [] st.k \in {"add_overlay", "add_phantom"} -> st.p \notin DOMAIN s.mem
    [] st.k = "found" -> FALSE
    [] st.k = "not_suspended" -> ~s.flag
    [] st.k = "is_suspended" -> s.flag
    [] st.k = "lock_free" -> check_lock(lock) = "Free"
    [] st.k = "stash_empty" -> StashFiles(stash) = {}
    [] OTHER -> TRUE

\* the steps that are calls into the file system or to git merge-file
Injectable(st) ==
  st.k \in {"rd_wt", "rd_bl", "rd_susp", "wr_susp", "wr_wt_bl", "wr_wt_susp",
            "wr_wt_merge", "wr_wt_merge_s", "wr_bl_head", "rm_wt", "rm_bl",
            "mk_suspdir", "rm_suspdir", "merge", "save", "add_excl",
            "rm_excl"}

\* the error a step fails with
ErrOf(st) ==
  CASE st.k = "tracked" -> Err("FileNotTracked", st.p)
    [] st.k = "untracked" -> Err("AlreadyTracked", st.p)
    [] st.k = "managed" -> Err("NotManaged", st.p)
    [] st.k \in {"add_overlay", "add_phantom"} -> Err("AlreadyManaged", st.p)
    [] st.k = "found" -> Err("NotManaged", st.p)
    [] st.k = "not_suspended" -> Err("AlreadySuspended", None)
    [] st.k = "is_suspended" -> Err("NotSuspended", None)
    [] st.k = "lock_free" ->
         IF check_lock(lock) = "Error" THEN Err("Io", None)
         ELSE Err("CommitInProgress", None)
    [] st.k = "stash_empty" -> Err("StashRemaining", None)
    [] st.k = "show" -> Err("GitCommand", st.p)
    [] OTHER -> Err("Io", st.p)

\* the effect of a step that succeeds
Exec(s, st) ==
  LET n == encode_path(st.p) IN
  CASE st.k = "wr_susp" -> [s EXCEPT !.sd[n] = s.wt[st.p]]
    [] st.k = "wr_wt_bl" -> [s EXCEPT !.wt[st.p] = s.bl[n]]
    [] st.k = "wr_wt_susp" -> [s EXCEPT !.wt[st.p] = s.sd[n]]
    [] st.k = "wr_wt_merge" ->
         [s EXCEPT !.wt[st.p] =
            three_way_merge(s.bl[n], s.wt[st.p], head[st.p]).content]
    [] st.k = "wr_wt_merge_s" ->
         [s EXCEPT !.wt[st.p] =
            three_way_merge(s.bl[n], s.sd[n], head[st.p]).content]
    [] st.k = "wr_bl_head" -> [s EXCEPT !.bl[n] = head[st.p]]
    [] st.k = "rm_wt" -> [s EXCEPT !.wt[st.p] = Absent]
    [] st.k = "rm_bl" -> [s EXCEPT !.bl[n] = Absent]
    [] st.k = "mk_suspdir" -> [s EXCEPT !.sdir = TRUE]
    [] st.k = "rm_suspdir" ->
         [s EXCEPT !.sd = [m \in SuspNames |-> Absent], !.sdir = FALSE]
    [] st.k = "set_ref" ->
         [s EXCEPT !.mem[st.p] = OverlayAt(head_commit)]
    [] st.k = "add_overlay" ->
         [s EXCEPT !.mem = [q \in DOMAIN s.mem \cup {st.p} |->
                              IF q = st.p THEN OverlayAt(head_commit)
                              ELSE s.mem[q]]]
    [] st.k = "add_phantom" ->
         [s EXCEPT !.mem = [q \in DOMAIN s.mem \cup {st.p} |->
                              IF q = st.p THEN PhantomEntry(FALSE)
                              ELSE s.mem[q]]]
    [] st.k = "remove" ->
         [s EXCEPT !.mem = [q \in DOMAIN s.mem \ {st.p} |-> s.mem[q]]]
    [] st.k = "add_excl" -> [s EXCEPT !.ex = @ \cup {ExcludeLine(st.p, FALSE)}]
    [] st.k = "rm_excl" ->
         [s EXCEPT !.ex = @ \ {ExcludeLine(st.p, s.mem[st.p].is_directory)}]
    [] st.k = "flag_on" -> [s EXCEPT !.flag = TRUE]
    [] st.k = "flag_off" -> [s EXCEPT !.flag = FALSE]
    [] st.k = "save" ->
         [s EXCEPT !.files = s.mem, !.suspended = save_suspended(s)]
    [] OTHER -> s

\* the ways a command can end: after all its steps (res "ok"), at the first
\* step that cannot succeed, or at a call that fails (inj); s is what it
\* leaves
RECURSIVE RunSteps(_, _)
RunSteps(s, steps) ==
  IF steps = <<>>
  THEN {[s |-> s, res |-> "ok", err |-> NoErr, inj |-> FALSE]}
  ELSE IF ~Possible(s, Head(steps))
  THEN {[s |-> s, res |-> "err", err |-> ErrOf(Head(steps)), inj |-> FALSE]}
  ELSE (IF Injectable(Head(steps))
        THEN {[s |-> s, res |-> "err", err |-> ErrOf(Head(steps)),
               inj |-> TRUE]}
        ELSE {})
       \cup RunSteps(Exec(s, Head(steps)), Tail(steps))

\* the command (op, file) is run as a process of its own
RunCommand(op, file, steps) ==
  /\ proc[1].pc = "idle"
  /\ nextPid <= limits.pids
  /\ nextPid' = nextPid + 1
  /\ snap' = Before
  /\ \E o \in RunSteps(Loaded, steps) :
       /\ o.inj => faults < limits.faults
       /\ faults' = faults + (IF o.inj THEN 1 ELSE 0)
       /\ wt' = o.s.wt
       /\ baselines' = o.s.bl
       /\ config' = o.s.files
       /\ shadow' = [shadow EXCEPT !.susp = o.s.sd, !.susp_dir = o.s.sdir,
                                   !.suspended = o.s.suspended,
                                   !.exclude = o.s.ex]
       /\ last' = [NoLast EXCEPT !.op = op, !.file = file, !.res = o.res,
                                 !.err = o.err]
  /\ scen' = NoScen
  /\ UNCHANGED <<index, head, stash, lock, proc, kills, limits, pre0, hist,
                 pure>>

(* ------------------------------------------------------------------ *)
(* commands/add.rs                                                      *)
(* ------------------------------------------------------------------ *)
\* add_overlay, then config.save in run
add_overlay_steps(p) ==
  <<Step("tracked", p), Step("rd_wt", p), Step("show", p),
    Step("wr_bl_head", p), Step("add_overlay", p), Step("save", None)>>

\* add_phantom (without --no-exclude; the path is a file or does not
\* exist), then config.save in run; add_entry writes the exclude file
\* only when the line is not in the managed section
add_phantom_steps(p) ==
  <<Step("untracked", p)>>
  \o (IF ExcludeLine(p, FALSE) \in shadow.exclude THEN <<>>
      ELSE <<Step("add_excl", p)>>)
  \o <<Step("add_phantom", p), Step("save", None)>>

Add(p, phantom) ==
  RunCommand(IF phantom THEN "add_phantom" ELSE "add", p,
             IF phantom THEN add_phantom_steps(p) ELSE add_overlay_steps(p))

(* ------------------------------------------------------------------ *)
(* commands/remove.rs (with --force)                                    *)
(* ------------------------------------------------------------------ *)
\* remove_overlay: the baseline goes back to the worktree and is deleted
remove_overlay_steps(p) ==
  IF baselines[encode_path(p)] = Absent THEN <<>>
  ELSE <<Step("rd_bl", p), Step("wr_wt_bl", p), Step("rm_bl", p)>>

\* remove_phantom: remove_entry rewrites the exclude file
remove_phantom_steps(p) == <<Step("rm_excl", p)>>

Remove(p) ==
  RunCommand("remove", p,
             <<Step("managed", p)>>
             \o (IF p \notin DOMAIN config THEN <<>>
                 ELSE IF config[p].file_type = "overlay"
                 THEN remove_overlay_steps(p)
                 ELSE remove_phantom_steps(p))
             \o <<Step("remove", p), Step("save", None)>>)

(* ------------------------------------------------------------------ *)
(* commands/rebase.rs                                                   *)
(* ------------------------------------------------------------------ *)
\* a mutant: rebase_file without the early return for an unchanged baseline
rebase_file_always(p) ==
  <<Step("rd_wt", p), Step("rd_bl", p), Step("show", p),
    Step("merge", p), Step("wr_wt_merge", p), Step("wr_bl_head", p),
    Step("set_ref", p)>>

\* a mutant: rebase_file that merges and leaves baseline_commit as it was
rebase_file_noref(p) ==
  <<Step("rd_wt", p), Step("rd_bl", p), Step("show", p)>>
  \o (IF baselines[encode_path(p)] = head[p] THEN <<>>
      ELSE <<Step("merge", p), Step("wr_wt_merge", p),
             Step("wr_bl_head", p)>>)

\* rebase_file
rebase_file(p) ==
  <<Step("rd_wt", p), Step("rd_bl", p), Step("show", p)>>
  \o (IF baselines[encode_path(p)] = head[p] THEN <<>>
      ELSE <<Step("merge", p), Step("wr_wt_merge", p), Step("wr_bl_head", p),
             Step("set_ref", p)>>)

\* the Overlay entries that run(file) rebases, in registry order
RebaseTargets(file) ==
  SortedKeys({p \in DOMAIN config :
                /\ config[p].file_type = "overlay"
                /\ (file = None \/ p = file)})

RECURSIVE RebaseLoop(_)
RebaseLoop(keys) ==
  IF keys = <<>> THEN <<>>
  ELSE rebase_file(Head(keys)) \o RebaseLoop(Tail(keys))

Rebase(file) ==
  RunCommand("rebase", file,
             IF DOMAIN config = {} THEN <<>>
             ELSE RebaseLoop(RebaseTargets(file))
                  \o (IF RebaseTargets(file) = <<>> /\ file # None
                      THEN <<Step("found", file)>>
                      ELSE <<Step("save", None)>>))

(* ------------------------------------------------------------------ *)
(* commands/suspend.rs                                                  *)
(* ------------------------------------------------------------------ *)
\* a mutant: suspend_overlay that leaves the shadow edit in the worktree
suspend_overlay_keep(p) ==
  <<Step("rd_wt", p), Step("wr_susp", p), Step("rd_bl", p)>>

\* suspend_overlay
suspend_overlay(p) ==
  <<Step("rd_wt", p), Step("wr_susp", p), Step("rd_bl", p),
    Step("wr_wt_bl", p)>>

suspend_phantom(p) ==
  IF wt[p] = Absent THEN <<>>
  ELSE <<Step("rd_wt", p), Step("wr_susp", p), Step("rm_wt", p)>>

RECURSIVE SuspendLoop(_)
SuspendLoop(keys) ==
  IF keys = <<>> THEN <<>>
  ELSE (CASE config[Head(keys)].file_type = "overlay" ->
               suspend_overlay(Head(keys))
          [] config[Head(keys)].is_directory -> <<>>
          [] OTHER -> suspend_phantom(Head(keys)))
       \o SuspendLoop(Tail(keys))

\* a mutant: suspend without the guards on the lock and the stash
SuspendGuards_flag ==
  <<Step("not_suspended", None)>>

\* the three guards of run
SuspendGuards ==
  <<Step("not_suspended", None), Step("lock_free", None),
    Step("stash_empty", None)>>

\* run, after the registry is loaded
suspend_steps ==
  SuspendGuards
  \o (IF DOMAIN config = {} THEN <<>>
      ELSE <<Step("mk_suspdir", None)>>
           \o SuspendLoop(SortedKeys(DOMAIN config))
           \o <<Step("flag_on", None), Step("save", None)>>)

Suspend == RunCommand("suspend", None, suspend_steps)

(* ------------------------------------------------------------------ *)
(* commands/resume.rs                                                   *)
(* ------------------------------------------------------------------ *)
resume_overlay(p) ==
  IF shadow.susp[encode_path(p)] = Absent THEN <<>>
  ELSE <<Step("rd_susp", p), Step("rd_bl", p)>>
       \o (IF head[p] = Absent \/ baselines[encode_path(p)] = head[p]
           THEN <<Step("wr_wt_susp", p)>>
           ELSE <<Step("merge", p), Step("wr_wt_merge_s", p),
                  Step("wr_bl_head", p), Step("set_ref", p)>>)

\* a mutant: resume_phantom that reads the suspended file and drops it
resume_phantom_lost(p) ==
  IF shadow.susp[encode_path(p)] = Absent THEN <<>>
  ELSE <<Step("rd_susp", p)>>

\* resume_phantom
resume_phantom(p) ==
  IF shadow.susp[encode_path(p)] = Absent THEN <<>>
  ELSE <<Step("rd_susp", p), Step("wr_wt_susp", p)>>

RECURSIVE ResumeLoop(_)
ResumeLoop(keys) ==
  IF keys = <<>> THEN <<>>
  ELSE (CASE config[Head(keys)].file_type = "overlay" ->
               resume_overlay(Head(keys))
          [] config[Head(keys)].is_directory -> <<>>
          [] OTHER -> resume_phantom(Head(keys)))
       \o ResumeLoop(Tail(keys))

Resume ==
  RunCommand("resume", None,
             <<Step("is_suspended", None)>>
             \o ResumeLoop(SortedKeys(DOMAIN config))
             \o (IF shadow.susp_dir THEN <<Step("rm_suspdir", None)>>
                 ELSE <<>>)
             \o <<Step("flag_off", None), Step("save", None)>>)

(* ------------------------------------------------------------------ *)
(* The environment: a new commit becomes HEAD (a commit of the team's   *)
(* text, a pull, a branch switch)                                       *)
(* ------------------------------------------------------------------ *)
\* the text c with region r edited upstream
Upstream(c, r) ==
  Unlines(ColOf(c), [Lines(c) EXCEPT ![r] = IF r = 1 THEN "u" ELSE "h"])

\* HEAD changes tracked file p; a worktree file without local changes
\* follows it, one with local changes is left as it is
UpstreamCommit(p, r) ==
  /\ proc[1].pc = "idle"
  /\ head_commit < MaxCommits
  /\ head[p] # Absent
  /\ Lines(head[p])[r] = "b"
  /\ head' = [head EXCEPT ![p] = Upstream(head[p], r)]
  /\ index' = [index EXCEPT ![p] = Upstream(head[p], r)]
  /\ wt' = IF wt[p] = head[p] THEN [wt EXCEPT ![p] = Upstream(head[p], r)]
           ELSE wt
  /\ shadow' = [shadow EXCEPT !.commits = Append(@, head')]
  /\ last' = NoLast
  /\ scen' = NoScen
  /\ UNCHANGED <<baselines, config, stash, lock, proc, nextPid, faults, kills,
                 limits, snap, pre0, hist, pure>>

(* ------------------------------------------------------------------ *)
(* The specification of the registry commands                           *)
(* ------------------------------------------------------------------ *)
\* the registries a behaviour of the registry commands can start with
AdminRegistries == {{}, {OV1, PH}, {OV1, OV2, PD}}

\* a repository with two tracked files, set up by install and add
InitAdminRepo(reg, ph) ==
  /\ config = [p \in reg |->
                 IF p \in {OV1, OV2} THEN OverlayAt(1) ELSE EntryOf(p)]
  /\ head = [p \in FilePaths |->
               IF p \in {OV1, OV2} THEN BaseC(p) ELSE Absent]
  /\ index = head
  /\ wt = [p \in FilePaths |->
             CASE p \in {OV1, OV2} ->
                    IF p \in reg THEN ShadowC(p) ELSE BaseC(p)
               [] p = PH /\ ph -> "N"
               [] p = PDF /\ PD \in reg -> "K"
               [] OTHER -> Absent]
  /\ baselines = [n \in BaselineNames |->
                    IF decode_path(n) \in reg THEN BaseC(decode_path(n))
                    ELSE Absent]

\* no commit in progress; or the lock and the stash entry that a killed
\* pre-commit left; or the lock of a pre-commit that is still running; or
\* the stash entry left by a pre-commit whose rollback failed before it
\* released the lock
InitAdminLock(busy) ==
  /\ lock = IF busy \in {"no", "leftover"} THEN LockAbsent ELSE LockOf(1)
  /\ stash = [n \in StashNames |->
                IF /\ busy \in {"crashed", "leftover"}
                   /\ n = encode_path(OV1)
                   /\ OV1 \in DOMAIN config
                THEN ShadowC(OV1) ELSE Absent]
  /\ proc = [p \in Procs |->
               IF busy = "running" /\ p = 2
               THEN [IdleProc EXCEPT !.pc = "held", !.op = "pre", !.pid = 1]
               ELSE IdleProc]
  /\ nextPid = 2

\* what a behaviour of the registry commands may spend
AdminLimits ==
  [conc |-> FALSE, faults |-> MaxAdminFaults, kills |-> 0,
   pids |-> MaxAdminPid, dels |-> 0]

InitAdmin ==
  /\ \E reg \in AdminRegistries, ph \in BOOLEAN : InitAdminRepo(reg, ph)
  /\ \E busy \in {"no", "crashed", "running", "leftover"} :
       /\ busy # "no" => DOMAIN config = {OV1, PH}
       /\ InitAdminLock(busy)
  /\ shadow = [stash_dir |-> TRUE, suspended |-> FALSE, susp_dir |-> FALSE,
               susp |-> [n \in SuspNames |-> Absent], commits |-> <<head>>,
               exclude |-> ExcludedBy(config)]
  /\ faults = 0
  /\ kills = 0
  /\ limits = AdminLimits
  /\ last = NoLast
  /\ snap = Before
  /\ pre0 = Snapshot
  /\ scen = NoScen
  /\ hist = [drain |-> FALSE, scoped |-> FALSE, dels |-> 0,
             pf |-> FALSE, pa |-> FALSE]
  /\ pure = NoPure

NextAdmin ==
  \/ \E p \in {OV1, OV2, PH}, phantom \in BOOLEAN : Add(p, phantom)
  \/ \E p \in {OV1, OV2, PH} : Remove(p)
  \/ \E file \in {None, OV1, OV2} : Rebase(file)
  \/ Suspend
  \/ Resume
  \/ \E p \in {OV1, OV2}, r \in 1..2 : UpstreamCommit(p, r)

SpecAdmin == InitAdmin /\ [][NextAdmin]_vars

(* ------------------------------------------------------------------ *)
(* Rebase                                                               *)
(* ------------------------------------------------------------------ *)
\* the latest step of the behaviour was a rebase that returned Ok
Rebased == last.op = "rebase" /\ last.res = "ok"

\* the Overlay entries that rebase was asked to work on
Rebasing(p) ==
  /\ p \in DOMAIN snap.config
  /\ snap.config[p].file_type = "overlay"
  /\ (last.file = None \/ last.file = p)

\* text c carries, region by region, every edit that text e makes to base
Carries(c, base, e) ==
  \A i \in 1..2 : Lines(e)[i] # Lines(base)[i] => Lines(c)[i] = Lines(e)[i]

\* C16: Rebase of an Overlay whose Baseline (old) differs from the HEAD
\* content (new) writes merge(base = old, ours = worktree, theirs = new) to
\* the worktree, replaces the Baseline with new and sets baseline_ref to
\* HEAD, also when the merge reports conflicts; in the conflict-free case
\* the worktree contains both the local shadow change and the HEAD change.
C16_RebaseMerges ==
  Rebased =>
    \A p \in {q \in {OV1, OV2} : Rebasing(q)} :
      LET old == snap.baselines[encode_path(p)]
          m == three_way_merge(old, snap.wt[p], head[p])
      IN old # head[p] =>
           /\ wt[p] = m.content
           /\ baselines[encode_path(p)] = head[p]
           /\ config[p].baseline_commit = head_commit
           /\ ~m.has_conflicts =>
                (Carries(wt[p], old, snap.wt[p]) /\ Carries(wt[p], old, head[p]))

\* a shadow edit and an upstream edit of other lines were merged
C16_Witness ==
  /\ Rebased
  /\ Rebasing(OV1)
  /\ snap.baselines[encode_path(OV1)] = "B1"
  /\ snap.wt[OV1] = "S1"
  /\ head[OV1] = "H1"
  /\ wt[OV1] = "M1"
  /\ baselines[encode_path(OV1)] = "H1"
  /\ snap.config[OV1].baseline_commit = 1
  /\ config[OV1].baseline_commit = 2

\* the latest step of the behaviour was a rebase, whatever it returned
RebaseRan == last.op = "rebase"

\* C17: Rebase of an Overlay whose Baseline content equals the HEAD content
\* of the path is a no-op: the worktree content, the Baseline file and the
\* entry's baseline_ref are all unchanged.
C17_RebaseNoChange ==
  RebaseRan =>
    \A p \in {q \in {OV1, OV2} : Rebasing(q)} :
      snap.baselines[encode_path(p)] = head[p] =>
        /\ wt[p] = snap.wt[p]
        /\ baselines[encode_path(p)] = snap.baselines[encode_path(p)]
        /\ p \in DOMAIN config
        /\ config[p] = snap.config[p]

\* HEAD moved by a commit that changed OV2 only; rebase of all entries
\* merged OV2 and left OV1, whose baseline_ref still names the old commit
C17_Witness ==
  /\ Rebased
  /\ last.file = None
  /\ Rebasing(OV1)
  /\ Rebasing(OV2)
  /\ snap.baselines[encode_path(OV1)] = head[OV1]
  /\ snap.baselines[encode_path(OV2)] # head[OV2]
  /\ head_commit = 2
  /\ config[OV2].baseline_commit = 2
  /\ config[OV1].baseline_commit = 1
  /\ wt[OV1] = "S1"
  /\ baselines[encode_path(OV1)] = "B1"

(* ------------------------------------------------------------------ *)
(* The Baseline invariant                                               *)
(* ------------------------------------------------------------------ *)
\* the committed content of path p at the commit the entry of p names
CommittedAtRef(p) == shadow.commits[config[p].baseline_commit][p]

\* C18: After any sequence of add, remove, rebase, suspend and resume
\* operations (including operations that return an error partway through),
\* every Overlay entry in the persisted registry has a Baseline file, and
\* that file's content equals the committed content of the path at the
\* entry's baseline_ref.
C18_AsStated ==
  \A p \in DOMAIN config :
    config[p].file_type = "overlay" =>
      /\ baselines[encode_path(p)] # Absent
      /\ baselines[encode_path(p)] = CommittedAtRef(p)

(* ------------------------------------------------------------------ *)
(* Suspend                                                              *)
(* ------------------------------------------------------------------ *)
\* the latest step of the behaviour was a suspend
SuspendRan == last.op = "suspend"

\* the three conditions under which suspend must refuse, as the command
\* found them
WasSuspended == snap.shadow.suspended
LockExisted == snap.lock.st # "absent"
StashHadFile == StashFiles(snap.stash) # {}

\* no worktree file, nothing of the suspended directory and nothing of
\* the registry differs from what the command found
SuspendChangedNothing ==
  /\ wt = snap.wt
  /\ shadow.susp = snap.shadow.susp
  /\ shadow.susp_dir = snap.shadow.susp_dir
  /\ config = snap.config
  /\ shadow.suspended = snap.shadow.suspended

\* C19: Suspend fails, without changing any worktree file, the suspended
\* directory or the registry, whenever the registry is already suspended, a
\* lock file exists (held by any process, or stale), or the stash contains
\* a file.
C19_SuspendGuards ==
  (SuspendRan /\ (WasSuspended \/ LockExisted \/ StashHadFile)) =>
    /\ last.res = "err"
    /\ SuspendChangedNothing

\* suspend refused because of the lock of a pre-commit that is running,
\* with the shadow edit of an Overlay still in the worktree
C19_Witness ==
  /\ SuspendRan
  /\ last.res = "err"
  /\ last.err = Err("CommitInProgress", None)
  /\ check_lock(lock) = "HeldByOther"
  /\ ~WasSuspended
  /\ ~StashHadFile
  /\ OV1 \in DOMAIN config
  /\ wt[OV1] = ShadowC(OV1)
  /\ shadow.susp[encode_path(OV1)] = Absent

\* the latest step of the behaviour was a suspend that returned Ok
Suspended == SuspendRan /\ last.res = "ok"

\* what a successful suspend leaves for the entry of p that it found
Parked(p) ==
  LET e == snap.config[p]
      n == encode_path(p)
  IN CASE e.file_type = "overlay" ->
            /\ wt[p] = snap.baselines[n]
            /\ shadow.susp[n] = snap.wt[p]
       [] e.is_directory -> wt[PDF] = snap.wt[PDF]
       [] OTHER ->
            snap.wt[p] # Absent =>
              /\ wt[p] = Absent
              /\ shadow.susp[n] = snap.wt[p]

\* C20 as stated: After suspend succeeds, for every Overlay the worktree
\* holds the Baseline content and suspended/<encoded path> holds the
\* previous worktree bytes; every existing non-directory Phantom file is
\* removed from the worktree with its bytes saved under suspended/;
\* directory Phantoms are untouched; and the persisted registry has
\* suspended = true.
C20_AsStated ==
  Suspended =>
    /\ \A p \in DOMAIN snap.config : Parked(p)
    /\ shadow.suspended

\* C20 (amended): the same, after suspend succeeds on a registry that has
\* at least one entry; on an empty registry suspend returns Ok and leaves
\* suspended = false.
C20_SuspendParks ==
  (Suspended /\ DOMAIN snap.config # {}) =>
    /\ \A p \in DOMAIN snap.config : Parked(p)
    /\ shadow.suspended
    /\ config = snap.config

\* suspend parked an Overlay with a shadow edit and a Phantom file and left
\* the file of a directory Phantom
C20_Witness ==
  /\ Suspended
  /\ DOMAIN snap.config = {OV1, OV2, PH, PD}
  /\ snap.wt[OV1] = "S1"
  /\ wt[OV1] = "B1"
  /\ shadow.susp[encode_path(OV1)] = "S1"
  /\ snap.wt[PH] = "N"
  /\ wt[PH] = Absent
  /\ shadow.susp[encode_path(PH)] = "N"
  /\ wt[PDF] = "K"
  /\ shadow.suspended
  /\ ~snap.shadow.suspended

(* ------------------------------------------------------------------ *)
(* Resume                                                               *)
(* ------------------------------------------------------------------ *)
\* the latest step of the behaviour was a resume that returned Ok
Resumed == last.op = "resume" /\ last.res = "ok"

\* C21: After resume succeeds, every Overlay entry's baseline_ref equals
\* the current HEAD, the suspended directory is removed and the registry's
\* suspended flag is false; a merge conflict in some Overlay does not abort
\* the resume.
C21_AsStated ==
  Resumed =>
    /\ \A p \in DOMAIN config :
         config[p].file_type = "overlay" =>
           config[p].baseline_commit = head_commit
    /\ ~shadow.susp_dir
    /\ \A n \in SuspNames : shadow.susp[n] = Absent
    /\ ~shadow.suspended

\* a resume that succeeds right after a suspend that succeeded: no command
\* and no new commit in between (unprimed: the state the suspend left,
\* with snap the repository that the suspend found)
SuspendThenResume ==
  /\ last.op = "suspend"
  /\ last.res = "ok"
  /\ last'.op = "resume"
  /\ last'.res = "ok"

\* the Overlay and non-directory Phantom paths that the suspend found
ParkedPaths ==
  {p \in DOMAIN snap.config :
     snap.config[p].file_type = "overlay" \/ ~snap.config[p].is_directory}

\* the worktree bytes of every parked path, the registry entries and the
\* Baseline files are again what the suspend found
RoundTrip ==
  /\ \A p \in ParkedPaths : wt'[p] = snap.wt[p]
  /\ config' = snap.config
  /\ baselines' = snap.baselines

\* no Overlay that the suspend found had a Baseline that differs from the
\* HEAD content of its path
BaselinesCurrent ==
  \A p \in DOMAIN snap.config :
    snap.config[p].file_type = "overlay" =>
      (head[p] = Absent \/ snap.baselines[encode_path(p)] = head[p])

\* the suspend found no file in the suspended directory
SuspendedDirEmpty == \A n \in SuspNames : snap.shadow.susp[n] = Absent

\* C22 as stated: Suspend followed by resume with HEAD unchanged in between
\* restores, for every Overlay and every non-directory Phantom, exactly the
\* worktree bytes from before the suspend, and leaves the registry entries
\* and Baseline files as they were before the suspend.
C22_AsStated == [][SuspendThenResume => RoundTrip]_vars

\* C22 (amended): the same, provided that when the suspend starts no
\* Overlay's Baseline content differs from the HEAD content of its path
\* (such an Overlay is merged and rebased by the resume) and the suspended
\* directory holds no file (a file left there by a suspend that failed is
\* written to the worktree by the resume).
C22_SuspendResume ==
  [][(SuspendThenResume /\ BaselinesCurrent /\ SuspendedDirEmpty)
       => RoundTrip]_vars

\* a resume put back the shadow edit of an Overlay and a Phantom file that
\* a suspend had parked
C22_Witness ==
  /\ Resumed
  /\ snap.shadow.suspended
  /\ snap.shadow.susp[encode_path(OV1)] = "S1"
  /\ snap.wt[OV1] = "B1"
  /\ snap.baselines[encode_path(OV1)] = head[OV1]
  /\ wt[OV1] = "S1"
  /\ snap.shadow.susp[encode_path(PH)] = "N"
  /\ snap.wt[PH] = Absent
  /\ wt[PH] = "N"
  /\ config = snap.config
  /\ baselines = snap.baselines

(* ================================================================== *)
(* Functions applied on their own                                       *)
(* ================================================================== *)
\* an installed repository with nothing registered, in which no hook and
\* no command runs
InitIdle ==
  /\ InitAdminRepo({}, FALSE)
  /\ InitAdminLock("no")
  /\ shadow = [stash_dir |-> TRUE, suspended |-> FALSE, susp_dir |-> FALSE,
               susp |-> [n \in SuspNames |-> Absent], commits |-> <<head>>,
               exclude |-> ExcludedBy(config)]
  /\ faults = 0
  /\ kills = 0
  /\ limits = AdminLimits
  /\ last = NoLast
  /\ snap = Before
  /\ pre0 = Snapshot
  /\ scen = NoScen
  /\ hist = [drain |-> FALSE, scoped |-> FALSE, dels |-> 0,
             pf |-> FALSE, pa |-> FALSE]

\* everything but the function's input and results
repo ==
  <<wt, index, head, baselines, config, stash, lock, proc, nextPid, faults,
    kills, limits, last, snap, pre0, scen, hist, shadow>>

(* ------------------------------------------------------------------ *)
(* path.rs: encode_path, decode_path                                    *)
(* ------------------------------------------------------------------ *)
MaxPathLen == 5
MaxOtherLen == 2

\* the characters of a path: the escape character, the separator, the
\* characters of the two escape sequences and an ordinary character
PathChars == {"%", "/", "2", "5", "F", "a"}

\* the path of the tests test_roundtrip_*
ExamplePath == <<"a", "%", "b", "/", "c">>

StringsUpTo(n) == UNION {[1..k -> PathChars] : k \in 0..n}

PathStrings == StringsUpTo(MaxPathLen) \cup {ExamplePath}

InitPath ==
  /\ InitIdle
  /\ \E s \in PathStrings :
       pure = [pc |-> "path", s |-> s, enc |-> <<>>, dec |-> <<>>]

\* the file name of a path
Encode ==
  /\ pure.pc = "path"
  /\ pure' = [pure EXCEPT !.pc = "encoded", !.enc = encode_path(pure.s)]
  /\ UNCHANGED repo

\* the path of a file name
Decode ==
  /\ pure.pc = "encoded"
  /\ pure' = [pure EXCEPT !.pc = "decoded", !.dec = decode_path(pure.enc)]
  /\ UNCHANGED repo

NextPath == Encode \/ Decode

SpecPath == InitPath /\ [][NextPath]_vars

\* C23: For every path string s (over an alphabet that includes '%', '/',
\* '2', '5', 'F' and ordinary characters), decode_path(encode_path(s)) = s,
\* so distinct managed paths never share a baseline or stash filename; in
\* particular encode_path("a%b/c") = "a%25b%2Fc" and it decodes back.
C23_RoundTrip ==
  /\ pure.pc = "decoded" => pure.dec = pure.s
  /\ pure.pc \in {"encoded", "decoded"} =>
       /\ \A t \in StringsUpTo(MaxOtherLen) :
            t # pure.s => encode_path(t) # pure.enc
       /\ pure.s = ExamplePath =>
            pure.enc = <<"a", "%", "2", "5", "b", "%", "2", "F", "c">>

\* a path that spells an escape sequence was encoded and decoded
C23_Witness ==
  /\ pure.pc = "decoded"
  /\ pure.s = <<"%", "2", "F", "/">>
  /\ pure.enc = <<"%", "2", "5", "2", "F", "%", "2", "F">>
  /\ pure.dec = pure.s

(* ------------------------------------------------------------------ *)
(* Duplicate and missing keys                                           *)
(* ------------------------------------------------------------------ *)
\* the latest step was an add of a path that was a registry key
AddedDuplicate ==
  /\ last.op \in {"add", "add_phantom"}
  /\ last.file \in DOMAIN snap.config

\* the latest step was a remove of a path that was not a registry key
RemovedStranger ==
  /\ last.op = "remove"
  /\ last.file \notin DOMAIN snap.config

\* the registry entries, the Baseline files and the managed section of the
\* exclude file are what the command found
PersistedUnchanged ==
  /\ config = snap.config
  /\ shadow.suspended = snap.shadow.suspended
  /\ baselines = snap.baselines
  /\ shadow.exclude = snap.shadow.exclude

\* C24: Adding a path that is already a registry key fails with
\* AlreadyManaged and removing a path that is not a key fails with
\* NotManaged; in both cases the persisted state (the registry entries, the
\* Baseline file of the existing entry, and the ignore-file managed
\* section) is exactly what it was before the failed command.
C24_AsStated ==
  /\ AddedDuplicate =>
       /\ last.res = "err"
       /\ last.err.kind = "AlreadyManaged" => PersistedUnchanged
  /\ RemovedStranger =>
       /\ last.res = "err"
       /\ last.err = Err("NotManaged", last.file)
       /\ PersistedUnchanged

(* ------------------------------------------------------------------ *)
(* exclude.rs: the managed section of .git/info/exclude                 *)
(* ------------------------------------------------------------------ *)
MaxExcludeLines == 5

\* a text is a sequence of characters; NL is the line feed. The two
\* sentinel lines are the one-character lines "S" and "E"; "#" starts a
\* comment and " " is white space.
NL == "\n"
SECTION_START == <<"S">>
SECTION_END == <<"E">>

\* the text before the first line feed of c, and the text after it
RECURSIVE UpToNL(_)
UpToNL(c) ==
  IF c = <<>> \/ Head(c) = NL THEN <<>> ELSE <<Head(c)>> \o UpToNL(Tail(c))

AfterNL(c) == SubSeq(c, Len(UpToNL(c)) + 2, Len(c))

\* str::lines: the lines of c without their line feeds; a final line feed
\* does not start another line
RECURSIVE str_lines(_)
str_lines(c) ==
  IF c = <<>> THEN <<>>
  ELSE <<UpToNL(c)>> \o str_lines(AfterNL(c))

\* [String]::join("\n")
RECURSIVE join(_)
join(ls) ==
  IF ls = <<>> THEN <<>>
  ELSE IF Len(ls) = 1 THEN ls[1]
  ELSE ls[1] \o <<NL>> \o join(Tail(ls))

\* str::trim
RECURSIVE trim_start(_)
trim_start(l) ==
  IF l # <<>> /\ Head(l) = " " THEN trim_start(Tail(l)) ELSE l

RECURSIVE trim_end(_)
trim_end(l) ==
  IF l # <<>> /\ l[Len(l)] = " " THEN trim_end(SubSeq(l, 1, Len(l) - 1))
  ELSE l

trim(l) == trim_end(trim_start(l))

\* parse_section, from line i on, with the flag in_section
RECURSIVE parse_from(_, _)
parse_from(ls, in_section) ==
  IF ls = <<>> THEN <<>>
  ELSE IF Head(ls) = SECTION_START THEN parse_from(Tail(ls), TRUE)
  ELSE IF Head(ls) = SECTION_END THEN parse_from(Tail(ls), FALSE)
  ELSE IF in_section /\ trim(Head(ls)) # <<>> /\ Head(trim(Head(ls))) # "#"
  THEN <<trim(Head(ls))>> \o parse_from(Tail(ls), in_section)
  ELSE parse_from(Tail(ls), in_section)

parse_section(content) == parse_from(str_lines(content), FALSE)

\* the loop of rebuild_content: the lines collected in before and after
RECURSIVE split_from(_, _, _, _)
split_from(ls, in_section, past_section, acc) ==
  IF ls = <<>> THEN acc
  ELSE IF Head(ls) = SECTION_START
  THEN split_from(Tail(ls), TRUE, past_section, acc)
  ELSE IF Head(ls) = SECTION_END
  THEN split_from(Tail(ls), FALSE, TRUE, acc)
  ELSE IF in_section
  THEN split_from(Tail(ls), in_section, past_section, acc)
  ELSE IF past_section
  THEN split_from(Tail(ls), in_section, past_section,
                  [acc EXCEPT !.after = Append(@, Head(ls))])
  ELSE split_from(Tail(ls), in_section, past_section,
                  [acc EXCEPT !.before = Append(@, Head(ls))])

\* push('\n') unless the text is empty or ends with a line feed
EndLine(r) == IF r # <<>> /\ r[Len(r)] # NL THEN r \o <<NL>> ELSE r

\* each entry followed by a line feed
RECURSIVE entry_lines(_)
entry_lines(entries) ==
  IF entries = <<>> THEN <<>>
  ELSE Head(entries) \o <<NL>> \o entry_lines(Tail(entries))

\* rebuild_content
rebuild_content(original, entries) ==
  LET sp == split_from(str_lines(original), FALSE, FALSE,
                       [before |-> <<>>, after |-> <<>>])
      result == join(sp.before)
  IN IF entries = <<>>
     THEN EndLine(IF sp.after # <<>>
                  THEN (IF result # <<>> THEN result \o <<NL>> ELSE result)
                       \o join(sp.after)
                  ELSE result)
     ELSE EndLine(result) \o SECTION_START \o <<NL>>
          \o entry_lines(entries) \o SECTION_END \o <<NL>>
          \o (IF sp.after # <<>> THEN EndLine(join(sp.after)) ELSE <<>>)

\* Vec::contains, Vec::retain
Contains(entries, e) == \E i \in 1..Len(entries) : entries[i] = e

RECURSIVE Without(_, _)
Without(entries, e) ==
  IF entries = <<>> THEN <<>>
  ELSE IF Head(entries) = e THEN Without(Tail(entries), e)
  ELSE <<Head(entries)>> \o Without(Tail(entries), e)

\* ExcludeManager::add_entry: the content of the file afterwards (a
\* missing file reads as the empty text)
add_entry(content, entry_path) ==
  IF Contains(parse_section(content), entry_path) THEN content
  ELSE rebuild_content(content, Append(parse_section(content), entry_path))

\* ExcludeManager::remove_entry
remove_entry(content, entry_path) ==
  rebuild_content(content, Without(parse_section(content), entry_path))

\* the lines an exclude file is made of: the sentinels, two patterns, a
\* comment, an empty line and a pattern with white space before it
ExcludeLineTexts ==
  {SECTION_START, SECTION_END, <<"a">>, <<"#">>, <<>>, <<" ", "a">>}

\* the entries that are added and removed: a new path, a path that may be
\* in the section already, a path that starts with white space
EntryPaths == {<<"b">>, <<"a">>, <<" ", "b">>}

\* the exclude files: up to MaxExcludeLines lines, the last one with or
\* without a line feed
ExcludeFiles ==
  UNION {{IF nl THEN EndLine(join(ls)) ELSE join(ls) :
            ls \in [1..k -> ExcludeLineTexts], nl \in BOOLEAN} :
         k \in 0..MaxExcludeLines}

InitExclude ==
  /\ InitIdle
  /\ \E c \in ExcludeFiles, e \in EntryPaths :
       pure = [pc |-> "exclude", content |-> c, entry |-> e,
               added |-> <<>>, removed |-> <<>>]

AddEntry ==
  /\ pure.pc = "exclude"
  /\ pure' = [pure EXCEPT !.pc = "added",
                          !.added = add_entry(pure.content, pure.entry)]
  /\ UNCHANGED repo

RemoveEntry ==
  /\ pure.pc = "added"
  /\ pure' = [pure EXCEPT !.pc = "removed",
                          !.removed = remove_entry(pure.added, pure.entry)]
  /\ UNCHANGED repo

NextExclude == AddEntry \/ RemoveEntry

SpecExclude == InitExclude /\ [][NextExclude]_vars

\* a text without the line feeds at its end
RECURSIVE Normalized(_)
Normalized(c) ==
  IF c # <<>> /\ c[Len(c)] = NL THEN Normalized(SubSeq(c, 1, Len(c) - 1))
  ELSE c

\* a sentinel line is in the text
HasSentinel(c) ==
  \E i \in 1..Len(str_lines(c)) :
    str_lines(c)[i] \in {SECTION_START, SECTION_END}

\* the entry was added to the file and removed again, and the entry was
\* not in the managed section of the file
AddedThenRemoved ==
  /\ pure.pc = "removed"
  /\ ~Contains(parse_section(pure.content), pure.entry)

\* the file is the original one up to the line feeds at its end, and it
\* has no sentinel line when its managed section is empty
Restored ==
  /\ Normalized(pure.removed) = Normalized(pure.content)
  /\ parse_section(pure.removed) = <<>> => ~HasSentinel(pure.removed)

\* an entry line as the tool writes it: a pattern without white space at
\* its ends that is no comment and no sentinel
IsEntryLine(l) ==
  /\ l # <<>>
  /\ trim(l) = l
  /\ Head(l) # "#"
  /\ l \notin {SECTION_START, SECTION_END}

\* the managed section of the file is absent, or it is the one block the
\* tool writes: the start sentinel, one or more entry lines, the end
\* sentinel, and no other sentinel line in the file
SectionAsWritten ==
  LET ls == str_lines(pure.content) IN
  \/ ~HasSentinel(pure.content)
  \/ \E i, j \in 1..Len(ls) :
       /\ i + 1 < j
       /\ ls[i] = SECTION_START
       /\ ls[j] = SECTION_END
       /\ \A k \in (i + 1)..(j - 1) : IsEntryLine(ls[k])
       /\ \A k \in 1..Len(ls) :
            k \notin i..j => ls[k] \notin {SECTION_START, SECTION_END}

\* C25, on the files whose managed section is absent or as the tool wrote
\* it and for entry lines without white space at their ends: For any
\* ignore-file content and any entry line not already in the managed
\* section, add_entry followed by remove_entry of that line yields the
\* original file content up to trailing-newline normalization: lines
\* outside the fenced block are preserved in order, and when the block
\* becomes empty both sentinel lines are gone.
C25_AsStated ==
  (AddedThenRemoved /\ SectionAsWritten /\ IsEntryLine(pure.entry))
    => Restored

(* ------------------------------------------------------------------ *)
(* config.rs: config.json as a document                                 *)
(* ------------------------------------------------------------------ *)
\* A JSON object is a function from its field names to its values; the
\* values of the fields other than "files" are written as strings.

\* the fields serde knows of a FileEntry
EntryFields ==
  {"type", "baseline_commit", "exclude_mode", "is_directory", "added_at"}

\* the fields without #[serde(default)] and that are no Option
RequiredEntryFields == {"type", "exclude_mode", "added_at"}

\* a field of a later version of the tool, at the top and in an entry
UnknownTop == "schema"
UnknownEntry == "note"

\* the values a field of an entry can have in a document
EntryValues(f) ==
  CASE f = "type" -> {"overlay", "phantom"}
    [] f = "baseline_commit" -> {"c1"}
    [] f = "exclude_mode" -> {"git_info_exclude"}
    [] f = "is_directory" -> {"true", "false"}
    [] f = "added_at" -> {"t1"}
    [] OTHER -> {"v"}

\* the objects with the fields in some subset of fs that holds must
ObjectsOver(must, fs, Val(_)) ==
  UNION {{o \in [d -> UNION {Val(f) : f \in d}] :
            \A f \in d : o[f] \in Val(f)} :
         d \in {e \in SUBSET fs : must \subseteq e}}

\* the entries of a document: the exclude_mode may be missing
EntryObjects ==
  ObjectsOver({"type", "added_at"}, EntryFields \cup {UnknownEntry},
              EntryValues)

\* the documents: an entry for PH, perhaps one for OV1, perhaps an unknown
\* field at the top, perhaps no version
ConfigDocuments ==
  {[top |-> t, files |-> f] :
     t \in ObjectsOver({}, {"version", UnknownTop},
                       LAMBDA x : IF x = "version" THEN {"1"} ELSE {"v"}),
     f \in UNION {[d -> EntryObjects] : d \in {{PH}, {PH, OV1}}}}

\* serde_json::from_str::<ShadowConfig>: fails on a missing field; fields
\* that the structs do not declare are skipped
CanParse(doc) ==
  /\ "version" \in DOMAIN doc.top
  /\ \A p \in DOMAIN doc.files :
       RequiredEntryFields \subseteq DOMAIN doc.files[p]

\* the FileEntry of a JSON entry
ParseEntry(e) ==
  [file_type |-> e["type"],
   baseline_commit |-> IF "baseline_commit" \in DOMAIN e
                       THEN e["baseline_commit"] ELSE "None",
   exclude_mode |-> e["exclude_mode"],
   is_directory |-> "is_directory" \in DOMAIN e /\ e["is_directory"] = "true",
   added_at |-> e["added_at"]]

\* ShadowConfig::load of a config.json that exists
load(doc) ==
  [version |-> doc.top["version"],
   files |-> [p \in DOMAIN doc.files |-> ParseEntry(doc.files[p])]]

\* the JSON entry of a FileEntry: baseline_commit is skipped when None,
\* is_directory when false
WriteEntry(e) ==
  [f \in {"type", "exclude_mode", "added_at"}
         \cup (IF e.baseline_commit # "None" THEN {"baseline_commit"} ELSE {})
         \cup (IF e.is_directory THEN {"is_directory"} ELSE {}) |->
     CASE f = "type" -> e.file_type
       [] f = "baseline_commit" -> e.baseline_commit
       [] f = "exclude_mode" -> e.exclude_mode
       [] f = "is_directory" -> "true"
       [] f = "added_at" -> e.added_at]

\* ShadowConfig::save: serde_json::to_string_pretty of the struct
save(cfg) ==
  [top |-> [f \in {"version"} |-> cfg.version],
   files |-> [p \in DOMAIN cfg.files |-> WriteEntry(cfg.files[p])]]

InitConfig ==
  /\ InitIdle
  /\ \E d \in ConfigDocuments :
       pure = [pc |-> "document", doc |-> d, res |-> "none",
               out |-> [top |-> <<>>, files |-> <<>>]]

\* load and keep the ShadowConfig, or fail
LoadConfig ==
  /\ pure.pc = "document"
  /\ pure' = [pure EXCEPT !.pc = "loaded",
                          !.res = IF CanParse(pure.doc) THEN "ok" ELSE "err"]
  /\ UNCHANGED repo

\* save what was loaded
SaveConfig ==
  /\ pure.pc = "loaded"
  /\ pure.res = "ok"
  /\ pure' = [pure EXCEPT !.pc = "saved", !.out = save(load(pure.doc))]
  /\ UNCHANGED repo

NextConfig == LoadConfig \/ SaveConfig

SpecConfig == InitConfig /\ [][NextConfig]_vars

\* the document has every field that the structs require
HasRequired(doc) == CanParse(doc)

\* every field of object a is in object b with the same value; a field
\* is_directory that is false may be left out
FieldsKept(a, b) ==
  \A f \in DOMAIN a :
    \/ f \in DOMAIN b /\ b[f] = a[f]
    \/ f = "is_directory" /\ a[f] = "false" /\ f \notin DOMAIN b

\* C26: Loading a registry document that contains additional unknown
\* fields succeeds, and a subsequent save writes those unknown fields back
\* unchanged: load followed by save preserves every field of the document,
\* including additive fields the tool does not know.
C26_AsStated ==
  /\ (pure.pc = "loaded" /\ HasRequired(pure.doc)) => pure.res = "ok"
  /\ pure.pc = "saved" =>
       /\ FieldsKept(pure.doc.top, pure.out.top)
       /\ DOMAIN pure.out.files = DOMAIN pure.doc.files
       /\ \A p \in DOMAIN pure.doc.files :
            FieldsKept(pure.doc.files[p], pure.out.files[p])

\* the lock file names a process that is not alive
StaleLock == lock.st = "ok" /\ ~is_process_alive(lock.pid)

\* the step is one of process p
StepOf(p) == proc[p].pc # "idle" /\ proc'[p].pc # proc[p].pc

\* the step removes or rewrites a lock file that is stale
StaleLockTouched == StaleLock /\ lock' # lock

MaxSuspendPid == 3

\* no call fails and no process is killed, so the pre-commit never rolls back
InitSuspend ==
  /\ InitRepos({{OV1}, {OV1, OV2}})
  /\ InitRest([conc |-> TRUE, faults |-> 0, kills |-> 0,
               pids |-> MaxSuspendPid, dels |-> 0])
  /\ InitShadow(TRUE)
  /\ pure = NoPure

\* git-shadow suspend is started: ShadowConfig::load, then the steps of run
StartSuspend(p) ==
  /\ proc[p].pc = "idle"
  /\ nextPid <= limits.pids
  /\ proc' = [proc EXCEPT ![p] =
                [IdleProc EXCEPT !.pc = "su_step", !.op = "suspend",
                                 !.pid = nextPid, !.l0 = lock,
                                 !.cfg = config, !.flag = load_suspended,
                                 !.steps = suspend_steps]]
  /\ nextPid' = nextPid + 1
  /\ snap' = Snapshot
  /\ scen' = ScenStart("suspend", None)
  /\ UNCHANGED <<wt, index, head, baselines, config, stash, lock, faults,
                 kills, limits, last, pre0, hist, shadow, pure>>

\* what the suspend process p sees: the files as they are now, and the
\* ShadowConfig it loaded
SeenBy(p) == [Loaded EXCEPT !.mem = proc[p].cfg, !.flag = proc[p].flag]

\* the next step of run succeeds
SuspendStep(p) ==
  LET me == proc[p]
      st == Head(me.steps)
      t == Exec(SeenBy(p), st)
  IN
  /\ me.pc = "su_step"
  /\ me.steps # <<>>
  /\ Possible(SeenBy(p), st)
  /\ wt' = t.wt
  /\ baselines' = t.bl
  /\ config' = t.files
  /\ shadow' = [shadow EXCEPT !.susp = t.sd, !.susp_dir = t.sdir,
                              !.suspended = t.suspended, !.exclude = t.ex]
  /\ proc' = [proc EXCEPT ![p] =
                [me EXCEPT !.steps = Tail(@), !.cfg = t.mem, !.flag = t.flag,
                           !.ow = IF st.k = "wr_wt_bl" THEN Append(@, st.p)
                                  ELSE @,
                           !.so = IF st.k = "wr_susp" THEN Append(@, st.p)
                                  ELSE @]]
  /\ UNCHANGED <<index, head, stash, lock, nextPid, faults, kills, limits,
                 last, snap, pre0, scen, hist, pure>>

\* run returns: Ok after the last step, Err at a guard that does not hold
SuspendExit(p) ==
  LET me == proc[p] IN
  /\ me.pc = "su_step"
  /\ IF me.steps = <<>>
     THEN Done(p, me, "ok", NoErr, FALSE)
     ELSE /\ ~Possible(SeenBy(p), Head(me.steps))
          /\ Done(p, me, "err", ErrOf(Head(me.steps)), FALSE)
  /\ UNCHANGED <<wt, index, head, baselines, config, stash, lock, nextPid,
                 faults, kills, limits, snap, pre0, hist>>

NextSuspend ==
  \/ \E p \in Procs : Start(p, [op |-> "pre", file |-> None])
  \/ \E p \in Procs : AcquireExists(p)
  \/ \E p \in Procs : AcquireRead(p)
  \/ \E p \in Procs : AcquireCreate(p)
  \/ \E p \in Procs : AcquireWrite(p)
  \/ \E p \in Procs : PreLoad(p)
  \/ \E p \in Procs : PreHardChecks(p)
  \/ \E p \in Procs : PrePartial(p)
  \/ \E p \in Procs : PreReleaseErr(p)
  \/ \E p \in Procs : OvRead(p)
  \/ \E p \in Procs : OvStash(p)
  \/ \E p \in Procs : OvReadBase(p)
  \/ \E p \in Procs : OvWrite(p)
  \/ \E p \in Procs : OvAdd(p)
  \/ \E p \in Procs : StartSuspend(p)
  \/ \E p \in Procs : SuspendStep(p)
  \/ \E p \in Procs : SuspendExit(p)

SpecSuspend == InitSuspend /\ [][NextSuspend]_vars

\* suspend process p has written to suspended/ or to the worktree
SuspendWrote(p) ==
  /\ proc[p].op = "suspend"
  /\ proc[p].so # <<>> \/ proc[p].ow # <<>>

\* C28: Suspend acquires the lock before it writes to suspended/ or to the
\* worktree and keeps it until it is done, so a pre-commit started while a
\* suspend is in progress fails at lock acquisition: there is no
\* interleaving in which a suspend and a pre-commit transaction both
\* modify the worktree.
C28_AsStated ==
  /\ \A p \in Procs : SuspendWrote(p) => lock = LockOf(proc[p].pid)
  /\ \A p, q \in Procs :
       ~(/\ proc[p].op = "suspend" /\ proc[p].ow # <<>>
         /\ proc[q].op = "pre" /\ proc[q].ow # <<>>)

\* Restore with a path argument is running, or has returned (Ok or Err) or
\* was killed and nothing has started since
ScopedRestore ==
  \/ \E p \in Procs : proc[p].op = "restore" /\ proc[p].file # None
  \/ Quiet /\ last.op = "restore" /\ last.file # None

\* the path argument of that Restore
ScopedTo ==
  IF Quiet THEN last.file
  ELSE proc[CHOOSE p \in Procs : proc[p].op = "restore"].file

\* C29: Restore scoped to a single path p writes back and deletes only the
\* stash entry whose decoded name equals p; every other stash entry remains
\* in the stash with unchanged content and its worktree file is not written.
C29_RestoreScoped ==
  ScopedRestore =>
    /\ \A n \in StashNames :
         decode_path(n) # ScopedTo =>
           /\ stash[n] = snap.stash[n]
           /\ wt[decode_path(n)] = snap.wt[decode_path(n)]
    /\ \A q \in FilePaths \ {ScopedTo} : wt[q] = snap.wt[q]
    /\ (Quiet /\ last.res = "ok") =>
         \A n \in StashedAs(snap.stash, ScopedTo) :
           stash[n] = Absent /\ wt[ScopedTo] = snap.stash[n]

\* a Restore scoped to an Overlay has returned Ok: its shadow content is back
\* in the worktree and its stash entry is gone, while the stash entry of
\* another managed file is still there and that file is as the pre-commit
\* left it
C29_Witness ==
  /\ Quiet /\ last.op = "restore" /\ last.res = "ok" /\ last.file = OV1
  /\ snap.stash[encode_path(OV1)] = ShadowC(OV1)
  /\ snap.wt[OV1] = BaseC(OV1)
  /\ wt[OV1] = ShadowC(OV1)
  /\ stash[encode_path(OV1)] = Absent
  /\ \E n \in StashNames \ {encode_path(OV1)} :
       /\ stash[n] # Absent
       /\ n # TmpName
       /\ wt[decode_path(n)] = snap.wt[decode_path(n)]
       /\ wt[decode_path(n)] # stash[n]

\* the directory Phantoms of the registry, and the paths that belong to one
DirEntries == {d \in DOMAIN config : config[d].is_directory}
InDir(q) == \E d \in DirEntries : q = d \/ IsUnder(q, d)

\* pre-commit runs, or has returned or was killed and nothing has started
\* since, on a registry that holds directory Phantoms only
PreOnDirs ==
  /\ DirEntries # {}
  /\ DirEntries = DOMAIN config
  /\ \/ \E p \in Procs : proc[p].op = "pre"
     \/ Quiet /\ last.op = "pre"

\* no stash entry was made, the files of the directories are as they were
\* and so is the index outside the directories
DirFrame ==
  /\ StashFiles(stash) \subseteq StashFiles(pre0.stash)
  /\ \A q \in FilePaths : InDir(q) => wt[q] = pre0.wt[q]
  /\ \A q \in FilePaths : ~InDir(q) => index[q] = pre0.index[q]

Mutates == wt' # wt \/ stash' # stash \/ index' # index

\* the step removes the lock file
RemovesLock == lock # LockAbsent /\ lock' = LockAbsent

\* the calls of rollback that process me made did not fail
RollbackClean(me) ==
  me.flt \cap {"rb_read", "rb_write", "rb_remove", "rb_add"} = {}

\* every stashed entry of me is out of the stash and every overwritten
\* Overlay is staged as it is in the worktree
RolledBackBy(me) ==
  /\ \A i \in 1..Len(RbList(me)) : stash[encode_path(RbList(me)[i])] = Absent
  /\ \A i \in 1..Len(me.ow) : index[me.ow[i]] = wt[me.ow[i]]

\* C31: In every execution of pre-commit, the lock is acquired before the
\* first write to the stash, the worktree or the index; and on a Phase 5
\* failure the lock file is removed only after every rollback step (stash
\* write-back, stash-entry deletion, re-stage) has been executed.
C31_LockOrder ==
  [][\A p \in Procs :
       (proc[p].op = "pre" /\ StepOf(p)) =>
         /\ Mutates =>
              proc[p].reach # "start" /\ lock = LockOf(proc[p].pid)
         /\ (RemovesLock /\ proc[p].reach = "rollback") =>
              /\ proc[p].pc = "rel_err"
              /\ RollbackClean(proc[p]) => RolledBackBy(proc[p])]_vars

\* a pre-commit that failed in Phase 5 after it had stashed and overwritten
\* an Overlay has returned: the stash is empty again, the shadow content is
\* back in the worktree and staged as before, and the lock is gone
C31_Witness ==
  /\ Quiet /\ last.op = "pre" /\ last.res = "err" /\ last.reach = "rollback"
  /\ Len(last.so) > 0
  /\ \E p \in Overlays :
       /\ pre0.wt[p] = ShadowC(p) /\ wt[p] = ShadowC(p)
       /\ pre0.stash[encode_path(p)] = Absent
  /\ StashFiles(stash) = {}
  /\ pre0.lock = LockAbsent /\ lock = LockAbsent

\* C32: After a Phase 5 failure and rollback, the index entry of every
\* Overlay equals its index entry from before pre-commit started; in
\* particular an Overlay whose shadow change was entirely unstaged before
\* pre-commit is not left with the shadow content staged.
C32_AsStated ==
  (Phase5Failed /\ last.flt = {"phase5"}) =>
    \A p \in Overlays : index[p] = pre0.index[p]

(* ------------------------------------------------------------------ *)
(* post-commit and Restore when a directory of the worktree is gone     *)
(* ------------------------------------------------------------------ *)
\* processes in a behaviour in which a directory of the worktree is removed
MaxParentPid == 3
\* how often the directory is removed in one behaviour
MaxParentDels == 1

\* between the commit and post-commit, or after a post-commit that failed,
\* the directory "%" that holds the Overlay %/C is removed from the
\* worktree (rm -r, or a checkout by another tool) while its shadow content
\* is in the stash
RemoveDir ==
  /\ Quiet
  /\ hist.dels < limits.dels
  /\ stash[encode_path(OV2)] # Absent
  /\ wt[OV2] # NoDir
  /\ wt' = [wt EXCEPT ![OV2] = NoDir]
  /\ hist' = [hist EXCEPT !.dels = @ + 1]
  /\ last' = NoLast
  /\ UNCHANGED <<index, head, baselines, config, stash, lock, proc, nextPid,
                 faults, kills, limits, snap, pre0, scen, shadow, pure>>

InitParent ==
  /\ InitRepos({{OV1, OV2}})
  /\ InitRest([conc |-> FALSE, faults |-> 0, kills |-> 0,
               pids |-> MaxParentPid, dels |-> MaxParentDels])
  /\ InitShadow(TRUE)
  /\ pure = NoPure

\* no call fails and no process is killed, so the rollback of pre-commit
\* never runs; the registry holds no Phantom
NextParent ==
  \/ \E p \in Procs, c \in Commands : Start(p, c)
  \/ \E p \in Procs : AcquireExists(p)
  \/ \E p \in Procs : AcquireRead(p)
  \/ \E p \in Procs : AcquireCreate(p)
  \/ \E p \in Procs : AcquireWrite(p)
  \/ \E p \in Procs : PreLoad(p)
  \/ \E p \in Procs : PreHardChecks(p)
  \/ \E p \in Procs : PrePartial(p)
  \/ \E p \in Procs : PreReleaseErr(p)
  \/ \E p \in Procs : OvRead(p)
  \/ \E p \in Procs : OvStash(p)
  \/ \E p \in Procs : OvReadBase(p)
  \/ \E p \in Procs : OvWrite(p)
  \/ \E p \in Procs : OvAdd(p)
  \/ \E p \in Procs : PostList(p)
  \/ \E p \in Procs : PostRead(p)
  \/ \E p \in Procs : PostWrite(p)
  \/ \E p \in Procs : PostRemove(p)
  \/ \E p \in Procs : PostFinish(p)
  \/ \E p \in Procs : ResList(p)
  \/ \E p \in Procs : ResRead(p)
  \/ \E p \in Procs : ResWrite(p)
  \/ \E p \in Procs : ResRemove(p)
  \/ \E p \in Procs : ResLock(p)
  \/ RemoveDir
  \/ HostCommit

SpecParent == InitParent /\ [][NextParent]_vars

\* post-commit has returned, and none of its calls was made to fail
PostEnded == Quiet /\ last.op = "post" /\ last.res = "ok" /\ last.flt = {}

\* C33: Post-commit restores every stash entry to its decoded worktree
\* path even when the directory of that path does not exist in the
\* worktree: the entry is written to the worktree and deleted from the
\* stash, and is not reported as a restore failure.
C33_AsStated ==
  PostEnded =>
    /\ last.failed = {}
    /\ \A n \in StashFiles(snap.stash) :
         stash[n] = Absent /\ wt[decode_path(n)] = snap.stash[n]

\* while a directory is missing its stash entry is there, so that no
\* pre-commit gets past the first of the hard checks, to where it would
\* read or write a worktree file
PreKeptOut ==
  \A p \in Procs :
    (proc[p].op = "pre" /\ \E q \in FilePaths : wt[q] = NoDir) =>
      proc[p].reach \in {"start", "acquired", "loaded"}

(* ------------------------------------------------------------------ *)
(* Commit cycles in which a call of post-commit fails once              *)
(* ------------------------------------------------------------------ *)
\* processes in a behaviour with a failing restore and later invocations
MaxRetryPid == 4
\* failing calls in such a behaviour
MaxRetryFaults == 1

InitRetry ==
  /\ InitRepos({{OV1, OV2}})
  /\ index = head
  /\ InitRest([conc |-> FALSE, faults |-> MaxRetryFaults, kills |-> 0,
               pids |-> MaxRetryPid, dels |-> 0])
  /\ InitShadow(TRUE)
  /\ pure = NoPure

\* the registry holds no Phantom and nothing is partially staged
NextRetry ==
  \/ \E p \in Procs, c \in Commands : Start(p, c)
  \/ \E p \in Procs : AcquireExists(p)
  \/ \E p \in Procs : AcquireRead(p)
  \/ \E p \in Procs : AcquireCreate(p)
  \/ \E p \in Procs : AcquireWrite(p)
  \/ \E p \in Procs : PreLoad(p)
  \/ \E p \in Procs : PreHardChecks(p)
  \/ \E p \in Procs : PrePartial(p)
  \/ \E p \in Procs : PreReleaseErr(p)
  \/ \E p \in Procs : OvRead(p)
  \/ \E p \in Procs : OvStash(p)
  \/ \E p \in Procs : OvReadBase(p)
  \/ \E p \in Procs : OvWrite(p)
  \/ \E p \in Procs : OvAdd(p)
  \/ \E p \in Procs : RbRead(p)
  \/ \E p \in Procs : RbWrite(p)
  \/ \E p \in Procs : RbRemove(p)
  \/ \E p \in Procs : RbRestage(p)
  \/ \E p \in Procs : PostList(p)
  \/ \E p \in Procs : PostRead(p)
  \/ \E p \in Procs : PostWrite(p)
  \/ \E p \in Procs : PostRemove(p)
  \/ \E p \in Procs : PostFinish(p)
  \/ \E p \in Procs : ResList(p)
  \/ \E p \in Procs : ResRead(p)
  \/ \E p \in Procs : ResWrite(p)
  \/ \E p \in Procs : ResRemove(p)
  \/ \E p \in Procs : ResLock(p)
  \/ HostCommit

SpecRetry == InitRetry /\ [][NextRetry]_vars

\* the errors by which pre-commit refuses to run over an unfinished cycle
RefusalKinds == {"StaleLock", "LockHeld", "StashRemaining"}

\* a step of a pre-commit in which no call has failed
CleanPreStep(p) ==
  proc[p].op = "pre" /\ StepOf(p) /\ proc[p].flt = {} /\ faults' = faults

\* the step leaves the worktree and the stash alone, and if it is the last
\* step of the pre-commit, the pre-commit fails with one of the refusals
Refuses(p) ==
  /\ wt' = wt /\ stash' = stash
  /\ proc'[p].pc = "idle" =>
       last'.res = "err" /\ last'.err.kind \in RefusalKinds

\* C34 (as stated): after a post-commit in which a stash entry failed to
\* restore, every later pre-commit fails with StaleLock, LockHeld or
\* StashRemaining without overwriting a worktree file or a stash entry,
\* until Restore has completed.
C34_AsStated ==
  [][\A p \in Procs : (hist.pf /\ CleanPreStep(p)) => Refuses(p)]_vars

\* C34 (amended): after a post-commit in which a stash entry failed to
\* restore, every later pre-commit fails with StaleLock, LockHeld or
\* StashRemaining without overwriting a worktree file or a stash entry,
\* until Restore or a later post-commit has emptied the stash.
C34_RefusedUntilRestored ==
  [][\A p \in Procs : (hist.pa /\ CleanPreStep(p)) => Refuses(p)]_vars

\* a pre-commit was refused after a post-commit could not restore an entry
C34_Witness ==
  /\ hist.pa /\ Quiet
  /\ last.op = "pre" /\ last.res = "err" /\ last.flt = {}
  /\ last.err.kind \in RefusalKinds

(* ------------------------------------------------------------------ *)
(* The content of the lock file                                         *)
(* ------------------------------------------------------------------ *)
\* C35: The lock file is written atomically: at every instant, also while
\* another process runs and after a kill during acquire, the lock file is
\* either absent or holds a complete pid/timestamp record.
C35_AsStated == lock = LockAbsent \/ parse_lock_ok(lock)

(* ------------------------------------------------------------------ *)
(* The suspended directory and the suspended flag                       *)
(* ------------------------------------------------------------------ *)
\* the files under .git/shadow/suspended
SuspendedFiles == {n \in DOMAIN shadow.susp : shadow.susp[n] # Absent}

\* C36: Files exist under suspended/ only while the persisted registry has
\* suspended = true: in every state reachable by suspend and resume,
\* including runs that fail partway, a non-empty suspended directory
\* implies suspended = true.
C36_AsStated == (SuspendedFiles # {}) => shadow.suspended

(* ------------------------------------------------------------------ *)
(* The lock after a pre-commit that fails                               *)
(* ------------------------------------------------------------------ *)
\* pre-commit has returned an error after acquire_lock had succeeded, and
\* no removal of the lock file was made to fail
PreFailedLocked ==
  /\ Quiet /\ last.op = "pre" /\ last.res = "err"
  /\ last.reach # "start" /\ "rel" \notin last.flt

\* C37: Whenever pre-commit returns an error after it has acquired the lock
\* (a failure to load the registry, a failed hard check, a failed
\* partial-stage check, a Phase 5 failure), the lock file it created is
\* absent on return.
C37_AsStated == PreFailedLocked => lock = LockAbsent

(* ------------------------------------------------------------------ *)
(* Where the shadow content is while hooks and Restore overlap          *)
(* ------------------------------------------------------------------ *)
\* the shadow content of Overlay p is in its worktree file or in its stash
\* entry
ShadowHeld(p) ==
  wt[p] = ShadowC(p) \/ stash[encode_path(p)] = ShadowC(p)

\* C38: The shadow content of every Overlay is at all times present either
\* in its worktree file or in its stash entry, in every state reachable by
\* any interleaving of pre-commit, post-commit and Restore processes and by
\* kills at any step (no call fails and no file is removed behind the
\* tool's back).
C38_AsStated ==
  (hist.dels = 0 /\ faults = 0) => \A p \in Overlays : ShadowHeld(p)

(* ------------------------------------------------------------------ *)
(* The shadow content across suspend and resume runs that fail          *)
(* ------------------------------------------------------------------ *)
\* where the shadow content of Overlay p is: in its suspended copy if there
\* is one, else in the worktree file
ParkedOrLive(p) ==
  IF shadow.susp[encode_path(p)] # Absent THEN shadow.susp[encode_path(p)]
  ELSE wt[p]

\* the step is a run of suspend, or a run of resume that has nothing to
\* merge for p
SuspendOrResume(p) ==
  /\ nextPid' # nextPid
  /\ \/ last'.op = "suspend"
     \/ last'.op = "resume" /\ baselines[encode_path(p)] = head[p]

\* C39: Across any sequence of suspend and resume invocations in which an
\* invocation may fail partway, each Overlay's shadow content remains
\* present in the worktree or under suspended/: re-running suspend after a
\* partial failure never replaces a suspended shadow copy with the Baseline
\* content.
C39_AsStated ==
  [][\A p \in Overlays :
       SuspendOrResume(p) =>
         ParkedOrLive(p) \in {wt'[p], shadow'.susp[encode_path(p)]}]_vars

(* ------------------------------------------------------------------ *)
(* baseline_ref after rebase                                            *)
(* ------------------------------------------------------------------ *)
\* C40: After rebase completes successfully for an Overlay, the entry's
\* baseline_ref equals the current HEAD, so that the next pre-commit emits
\* no drift warning for it; also when HEAD has moved and the content of the
\* path did not change.
C40_AsStated ==
  Rebased =>
    \A p \in {q \in {OV1, OV2} : Rebasing(q)} :
      p \in DOMAIN config /\ config[p].baseline_commit = head_commit

\* run_soft_checks: the drift warning for Overlay p
\* (baseline_commit != current_head)
run_soft_checks(p) == config[p].baseline_commit # head_commit

\* C40 (amended): After rebase completes successfully for an Overlay whose
\* Baseline content differed from the HEAD content of the path, the entry's
\* baseline_ref equals the current HEAD, so that the next pre-commit emits
\* no drift warning for it.
C40_RebaseAdvances ==
  Rebased =>
    \A p \in {q \in {OV1, OV2} : Rebasing(q)} :
      snap.baselines[encode_path(p)] # head[p] =>
        /\ p \in DOMAIN config
        /\ config[p].baseline_commit = head_commit
        /\ ~run_soft_checks(p)

\* an entry that was behind HEAD, with a changed path, was rebased and is
\* no longer warned about
C40_Witness ==
  /\ Rebased
  /\ \E p \in {OV1, OV2} :
       /\ Rebasing(p)
       /\ snap.baselines[encode_path(p)] # head[p]
       /\ snap.config[p].baseline_commit < head_commit
       /\ ~run_soft_checks(p)

====
